---- MODULE Spec2Model ----
(***************************************************************************)
(* Evidentiary-integrity subsystem of LERS-Standalone (backend/apps):      *)
(* the hash-chained audit ledger (audit/models.py, audit/middleware.py),   *)
(* the custody ledger (evidence/services, evidence/views.py,               *)
(* evidence/admin.py), the signature service and key manager              *)
(* (core/crypto.py), the evidence vault (evidence/storage.py), court       *)
(* bundle generation (evidence/services/court_bundle_service.py) and the   *)
(* LERS request workflow (lers/services, lers/tasks.py).                   *)
(*                                                                         *)
(* Strings of the program are TLA+ strings, so an f-string is the          *)
(* concatenation the code performs.  SHA-256 is an injective wrapper       *)
(* "sha(" data ")" (collision freedom); a signature is the triple          *)
(* (key, signed bytes, salt) that only the matching key and bytes verify.  *)
(***************************************************************************)
EXTENDS Integers, Sequences, FiniteSets, TLC

VARIABLES
    \* ---- audit ledger ----
    audit_logs,     \* rows of table audit_logs
    clock,          \* value the next timezone.now() returns
    workers,        \* request-handling threads that exist in this run
    pc,             \* per worker: position inside AuditLog.objects.create
    req,            \* per worker: the AuditLog instance being saved
    tampered,       \* out-of-band corruption of one stored log_hash (index, ledger size)
    \* ---- evidence signature service ----
    sig_orig,       \* the package sign_evidence returned
    sig_pkg,        \* the package as it is handed to verify_evidence
    sig_changed,    \* name of the package field changed after signing ("" if none)
    sig_result,     \* what verify_evidence returned
    \* ---- evidence records and custody ledger ----
    evidence_files, \* rows of table evidence_files, keyed by uploaded content
    custody,        \* rows of table chain_of_custody
    uploading,      \* uploads of EvidenceFileViewSet.upload between its two INSERTs
    \* ---- court bundle ----
    bundle,             \* the CourtBundle row: evidence_files, manifest
    manifest_signature, \* CourtBundle.manifest_signature, the stored package
    bundle_signings,    \* the last two sign_bundle calls: evidence_hashes input and package
    bundle_result,      \* what the last bundle signature verification returned
    \* ---- evidence vault ----
    encryption_key,     \* settings.EVIDENCE_ENCRYPTION_KEY, base64 text
    envelope,           \* bytes encrypt_file returned, and what happened to them since
    decrypt_result,     \* what decrypt_file returned or raised
    objects,            \* the MinIO bucket: object name -> stored bytes
    uploads,            \* the upload_evidence calls made so far, with what they returned
    flipped_path,       \* name of the object that has one bit inverted ("" if none)
    vault_result,       \* the last vault call and what it returned or raised
    \* ---- evidence service on the vault ----
    storage,            \* columns storage_path, is_encrypted of table evidence_files
    api_call,           \* the last service or API call and what it returned
    outcome_of,         \* per condition of the stored object: what verifying it last reported
    \* ---- accounts the audit ledger refers to ----
    users,              \* rows of table users (ids)
    tenants,            \* rows of table tenants (ids)
    audit_op,           \* the last operation that touched table audit_logs
    \* ---- concurrent custody appends ----
    custody_pending,    \* per worker: the row create_custody_record is about to INSERT
    custody_order,      \* the rows of chain_of_custody in the order their INSERTs took effect
    \* ---- key manager ----
    key_material,       \* per key type: what settings configure ("PATH", "PEM" or nothing)
    key_cache,          \* django cache: entry crypto_key:<type>:private, or None
    key_loading,        \* per worker: the key type it is loading after a cache miss
    key_returned,       \* per key type: the keys the calls have returned so far
    key_generated,      \* number of ephemeral keys generated so far
    \* ---- court bundle generation ----
    bundle_status,      \* CourtBundle.status as committed ("" while there is no bundle)
    bundle_archive,     \* the stored ZIP: which evidence it holds, and whether signing was asked for
    gen_call,           \* the last create_bundle / generate_bundle_file call and how it ended
    \* ---- LERS request workflow ----
    lers_request,       \* the LERSRequest row: status, provider_tenant set or not, responses exist or not
    lers_call           \* the last service call or task run: the status changes it made, what it raised

auditVars == <<audit_logs, workers, pc, req, tampered>>
signVars == <<sig_orig, sig_pkg, sig_changed, sig_result>>
custodyVars == <<evidence_files, custody, uploading>>
bundleVars == <<bundle, manifest_signature, bundle_signings, bundle_result>>
envelopeVars == <<envelope, decrypt_result>>
storeVars == <<objects, uploads, flipped_path, vault_result>>
vaultVars == <<encryption_key, envelopeVars, storeVars>>
serviceVars == <<storage, api_call, outcome_of>>
accountVars == <<users, tenants, audit_op>>
raceVars == <<custody_pending, custody_order>>
keyVars == <<key_material, key_cache, key_loading, key_returned, key_generated>>
genVars == <<bundle_status, bundle_archive, gen_call>>
lersVars == <<lers_request, lers_call>>
laterVars == <<accountVars, raceVars, keyVars, genVars, lersVars>>
nonAuditVars == <<signVars, custodyVars, bundleVars, vaultVars, serviceVars, laterVars>>
nonSignVars == <<auditVars, custodyVars, bundleVars, vaultVars, serviceVars, laterVars>>
nonCustodyVars == <<auditVars, signVars, bundleVars, vaultVars, serviceVars, laterVars>>
nonBundleVars == <<auditVars, signVars, custodyVars, vaultVars, serviceVars, laterVars>>
nonVaultVars == <<auditVars, signVars, custodyVars, bundleVars, serviceVars, laterVars>>
vars == <<clock, auditVars, signVars, custodyVars, bundleVars, vaultVars, serviceVars, laterVars>>

\* ---------------------------------------------------------------- bounds
MaxLogs == 3
MaxWorkers == 2
MaxCustody == 3
MaxTicks == 1
MaxKeys == 2

\* ---------------------------------------------------------------- audit ledger
WorkerIds == 1..MaxWorkers
Users == {1, 2}
Methods == {"GET", "DELETE"}

\* AuditMiddleware._create_audit_log: action_map.get(request.method, 'VIEW')
action_map(method) ==
    CASE method = "POST" -> "CREATE"
      [] method = "PUT" -> "UPDATE"
      [] method = "PATCH" -> "UPDATE"
      [] method = "DELETE" -> "DELETE"
      [] method = "GET" -> "VIEW"
      [] OTHER -> "VIEW"

\* The requests the middleware audits: /api/v1/<resource_type>/<resource_id>/
AuditRequests ==
    {[user |-> u, method |-> m, resource_type |-> "cases", resource_id |-> "7"] :
        u \in Users, m \in Methods}

NoReq == [user_id |-> 0, action |-> "", resource_type |-> "", resource_id |-> "",
          timestamp |-> 0, previous_log_hash |-> "", log_hash |-> ""]

\* hashlib.sha256(data.encode()).hexdigest()
Sha256(data) == "sha(" \o data \o ")"

\* datetime.isoformat()
isoformat(t) == "T" \o ToString(t)

\* AuditLog.save line 83 mutated: resource_id is left out of the hashed text
HashData_NoResourceId(e, prev) ==
    ToString(e.user_id) \o ":" \o e.action \o ":" \o e.resource_type \o ":"
        \o isoformat(e.timestamp) \o ":" \o prev

\* AuditLog.save line 83: the f-string that is hashed
HashData(e, prev) ==
    ToString(e.user_id) \o ":" \o e.action \o ":" \o e.resource_type \o ":"
        \o e.resource_id \o ":" \o isoformat(e.timestamp) \o ":" \o prev

\* AuditLog.save line 79 mutated: the oldest row instead of the latest
LastLog_Oldest(logs) ==
    CHOOSE e \in logs : \A f \in logs : e.timestamp <= f.timestamp

\* AuditLog.objects.order_by('-timestamp').first()
LastLog(logs) ==
    CHOOSE e \in logs : \A f \in logs : f.timestamp <= e.timestamp

\* AuditLog.save lines 79-80
PreviousLogHash(logs) == IF logs = {} THEN "" ELSE LastLog(logs).log_hash

\* AuditLog.save lines 83-84 mutated: the previous value is left out of the hash
LogHash_NoPrevious(e, prev) == Sha256(HashData(e, ""))

\* AuditLog.save lines 83-84
LogHash(e, prev) == Sha256(HashData(e, prev))

InFlight == Cardinality({w \in workers : pc[w] # "idle"})

\* AuditLog.objects.create(...): the instance is built, timestamp = timezone.now()
AuditCreate(w, r) ==
    /\ pc[w] = "idle"
    /\ Cardinality(audit_logs) + InFlight < MaxLogs
    /\ req' = [req EXCEPT ![w] =
                 [user_id |-> r.user, action |-> action_map(r.method),
                  resource_type |-> r.resource_type, resource_id |-> r.resource_id,
                  timestamp |-> clock, previous_log_hash |-> "", log_hash |-> ""]]
    /\ clock' = clock + 1
    /\ pc' = [pc EXCEPT ![w] = "created"]
    /\ UNCHANGED <<audit_logs, workers, tampered, nonAuditVars>>

\* AuditLog.save lines 77-84: read the latest row, chain to it, hash
SaveRead(w) ==
    /\ pc[w] = "created"
    /\ LET prev == PreviousLogHash(audit_logs) IN
         req' = [req EXCEPT ![w] =
                   IF req[w].log_hash = ""
                   THEN [req[w] EXCEPT !.previous_log_hash = prev,
                                       !.log_hash = LogHash(req[w], prev)]
                   ELSE req[w]]
    /\ pc' = [pc EXCEPT ![w] = "hashed"]
    /\ UNCHANGED <<audit_logs, clock, workers, tampered, nonAuditVars>>

\* AuditLog.save line 86: INSERT; log_hash is unique=True, a duplicate raises
\* IntegrityError, which AuditMiddleware.__call__ logs and drops.
SaveInsert(w) ==
    /\ pc[w] = "hashed"
    /\ audit_logs' =
         IF \E e \in audit_logs : e.log_hash = req[w].log_hash
         THEN audit_logs
         ELSE audit_logs \cup {req[w]}
    /\ req' = [req EXCEPT ![w] = NoReq]
    /\ pc' = [pc EXCEPT ![w] = "idle"]
    /\ UNCHANGED <<clock, workers, tampered, nonAuditVars>>

\* The ledger read back in order (order_by timestamp ascending)
OrderByTimestamp(logs) ==
    CHOOSE s \in [1..Cardinality(logs) -> logs] :
        /\ \A i, j \in 1..Cardinality(logs) : i < j => s[i].timestamp < s[j].timestamp

\* verify_chain's replay at one index: the stored previous value is the stored
\* value of the entry before (empty for the first), and re-hashing the stored
\* fields gives the stored integrity value.
ReplayHash(e) ==
    Sha256(ToString(e.user_id) \o ":" \o e.action \o ":" \o e.resource_type \o ":"
           \o e.resource_id \o ":" \o isoformat(e.timestamp) \o ":"
           \o e.previous_log_hash)

Disagrees(s, j) ==
    \/ s[j].previous_log_hash # (IF j = 1 THEN "" ELSE s[j - 1].log_hash)
    \/ ReplayHash(s[j]) # s[j].log_hash

\* verify_chain(from, to) -> (ok, first_break) over the whole ledger
VerifyChain(s) ==
    LET bad == {j \in 1..Len(s) : Disagrees(s, j)} IN
      IF bad = {} THEN [ok |-> TRUE, first_break |-> 0]
      ELSE [ok |-> FALSE, first_break |-> CHOOSE j \in bad : \A k \in bad : j <= k]

TamperValues == {"deadbeef"}

\* One stored integrity value is overwritten behind the application's back.
Tamper(i, v) ==
    /\ tampered.idx = 0
    /\ i \in 1..Cardinality(audit_logs)
    /\ \A e \in audit_logs : e.log_hash # v
    /\ LET s == OrderByTimestamp(audit_logs) IN
         audit_logs' = (audit_logs \ {s[i]}) \cup {[s[i] EXCEPT !.log_hash = v]}
    /\ tampered' = [idx |-> i, n |-> Cardinality(audit_logs)]
    /\ UNCHANGED <<clock, workers, pc, req, nonAuditVars>>

\* ---------------------------------------------------------------- core/crypto.py
None == "<None>"

\* KeyManager.get_rsa_private_key(): the configured evidence key
get_rsa_private_key == "rsa-key-1"

\* KeyManager.get_rsa_public_key(): private_key.public_key()
public_key(private_key) == "pub(" \o private_key \o ")"

get_rsa_public_key == public_key(get_rsa_private_key)

RsaKeys == {get_rsa_private_key}
Salts == {"s1", "s2"}

\* private_key.sign(payload_bytes, PSS(MGF1(SHA256), MAX_LENGTH), SHA256):
\* probabilistic, the random salt is part of the signature
pss_sign(private_key, payload_bytes, salt) ==
    "pss[" \o private_key \o "," \o salt \o "](" \o payload_bytes \o ")"

\* public_key.verify(signature, payload_bytes, PSS, SHA256) does not raise
\* InvalidSignature: the bytes are a signature of payload_bytes under the key pair
pss_verify(pub, signature, payload_bytes) ==
    \E k \in RsaKeys, salt \in Salts :
        /\ public_key(k) = pub
        /\ signature = pss_sign(k, payload_bytes, salt)

b64encode(bytes) == "b64:" \o bytes

\* b64decode(s) with validate=False first discards the characters outside the
\* base64 alphabet; "!" is such a character, and the texts used here carry
\* them at the end
RECURSIVE discard_non_alphabet(_)
discard_non_alphabet(text) ==
    IF Len(text) > 0 /\ SubSeq(text, Len(text), Len(text)) = "!"
    THEN discard_non_alphabet(SubSeq(text, 1, Len(text) - 1))
    ELSE text

\* the text is the base64 encoding of some bytes, character for character
IsCanonicalBase64(text) == Len(text) >= 4 /\ SubSeq(text, 1, 4) = "b64:"

\* b64decode raises binascii.Error if what is left after discarding is not base64
IsBase64(text) ==
    LET data == discard_non_alphabet(text)
    IN  data = "" \/ IsCanonicalBase64(data)

b64decode(text) ==
    LET data == discard_non_alphabet(text)
    IN  IF data = "" THEN "" ELSE SubSeq(data, 5, Len(data))

\* A component that .get() does not find, and a call that has not returned
NoPayload == [file_hash |-> "", file_name |-> "", file_size |-> 0, timestamp |-> "",
              uploader_id |-> 0, case_id |-> 0, metadata |-> ""]
NoPackage == [signature |-> "", algorithm |-> "", key_id |-> "", signed_at |-> "",
              payload |-> NoPayload]
NoResult == [is_valid |-> FALSE, error |-> ""]

\* json.dumps(payload, sort_keys=True) of the evidence payload: keys in sorted order
json_dumps_evidence(payload) ==
    "{case_id: " \o ToString(payload.case_id)
        \o ", file_hash: " \o payload.file_hash
        \o ", file_name: " \o payload.file_name
        \o ", file_size: " \o ToString(payload.file_size)
        \o ", metadata: " \o payload.metadata
        \o ", timestamp: " \o payload.timestamp
        \o ", uploader_id: " \o ToString(payload.uploader_id) \o "}"

\* EvidenceSignature.sign_evidence; now is datetime.utcnow(), salt the PSS salt
sign_evidence(file_hash, file_name, file_size, uploader_id, case_id, now, salt) ==
    LET payload == [file_hash |-> file_hash, file_name |-> file_name,
                    file_size |-> file_size, timestamp |-> isoformat(now) \o "Z",
                    uploader_id |-> uploader_id, case_id |-> case_id,
                    metadata |-> "{}"]
        payload_bytes == json_dumps_evidence(payload)
        signature == pss_sign(get_rsa_private_key, payload_bytes, salt)
    IN  [signature |-> b64encode(signature),
         algorithm |-> "RSA-4096-PSS-SHA256",
         key_id |-> "default",
         signed_at |-> payload.timestamp,
         payload |-> payload]

\* algorithm.startswith('RSA-')
StartsWithRSA(algorithm) == Len(algorithm) >= 4 /\ SubSeq(algorithm, 1, 4) = "RSA-"

\* EvidenceSignature.verify_evidence -> (is_valid, error_message).  A missing
\* component reads as None through .get(); None and '' are both falsy.
verify_evidence(signature_data) ==
    IF \/ signature_data.signature = ""
       \/ signature_data.payload = NoPayload
       \/ signature_data.algorithm = ""
    THEN [is_valid |-> FALSE, error |-> "Missing signature components"]
    ELSE IF ~StartsWithRSA(signature_data.algorithm)
    THEN [is_valid |-> FALSE,
          error |-> "Unsupported algorithm: " \o signature_data.algorithm]
    ELSE IF ~IsBase64(signature_data.signature)
    THEN [is_valid |-> FALSE, error |-> "Verification error: Incorrect padding"]
    ELSE IF ~pss_verify(get_rsa_public_key, b64decode(signature_data.signature),
                        json_dumps_evidence(signature_data.payload))
    THEN [is_valid |-> FALSE,
          error |-> "Signature verification failed - signature is invalid"]
    ELSE [is_valid |-> TRUE, error |-> None]

\* EvidenceSignature.verify_file_integrity
verify_file_integrity(signature_data, current_file_hash) ==
    IF ~verify_evidence(signature_data).is_valid
    THEN verify_evidence(signature_data)
    ELSE IF signature_data.payload.file_hash # current_file_hash
    THEN [is_valid |-> FALSE, error |-> "File has been modified (hash mismatch)"]
    ELSE [is_valid |-> TRUE, error |-> None]

\* ---- sign_evidence / verify_evidence as a round trip over bounded inputs
Contents == {"c1", "c2"}
FileNames == {"a.pdf", "b.pdf"}
FileSizes == {10, 20}
CaseIds == {7}

PayloadFields == {"file_hash", "file_name", "file_size", "timestamp",
                  "uploader_id", "case_id", "metadata"}
PackageFields == {"signature", "algorithm", "key_id", "signed_at"}

\* Values a field can be overwritten with; each differs from what signing wrote.
PayloadValues(field) ==
    IF field \in {"file_size", "uploader_id", "case_id"} THEN {99} ELSE {"changed"}

PackageValues(field) ==
    CASE field = "signature" -> {"", "not base64", b64encode("forged")}
      [] field = "algorithm" -> {"", "Ed25519", "RSA-2048-PKCS1v15-SHA1"}
      [] field = "key_id" -> {"rotated"}
      [] field = "signed_at" -> {isoformat(0) \o "Z"}

SignEvidence(content, file_name, file_size, uploader_id, case_id, salt) ==
    /\ sig_orig = NoPackage
    /\ LET package == sign_evidence(Sha256(content), file_name, file_size,
                                    uploader_id, case_id, clock, salt) IN
         /\ sig_orig' = package
         /\ sig_pkg' = package
    /\ clock' = clock + 1
    /\ UNCHANGED <<sig_changed, sig_result, nonSignVars>>

\* One field of the embedded payload is changed after signing.
ChangePayloadField(field, value) ==
    /\ sig_orig # NoPackage
    /\ sig_changed = ""
    /\ sig_result = NoResult
    /\ sig_pkg' = [sig_pkg EXCEPT !.payload = [@ EXCEPT ![field] = value]]
    /\ sig_changed' = "payload." \o field
    /\ UNCHANGED <<clock, sig_orig, sig_result, nonSignVars>>

\* One of the other package fields is changed after signing.
ChangePackageField(field, value) ==
    /\ sig_orig # NoPackage
    /\ sig_changed = ""
    /\ sig_result = NoResult
    /\ sig_pkg' = [sig_pkg EXCEPT ![field] = value]
    /\ sig_changed' = field
    /\ UNCHANGED <<clock, sig_orig, sig_result, nonSignVars>>

VerifyEvidence ==
    /\ sig_orig # NoPackage
    /\ sig_result = NoResult
    /\ sig_result' = verify_evidence(sig_pkg)
    /\ UNCHANGED <<clock, sig_orig, sig_pkg, sig_changed, nonSignVars>>

InitSign ==
    /\ sig_orig = NoPackage
    /\ sig_pkg = NoPackage
    /\ sig_changed = ""
    /\ sig_result = NoResult

\* ---------------------------------------------------------------- evidence and custody ledger
FileNameOf(content) == IF content = "c1" THEN "a.pdf" ELSE "b.pdf"
FileSizeOf(content) == IF content = "c1" THEN 10 ELSE 20
Uploader == 1
CaseOf(content) == 7

NoEvidence == [exists |-> FALSE, sha256_hash |-> "", digital_signature |-> NoPackage,
               legal_hold |-> FALSE]

EmptyMetadata == "{}"

\* metadata written by the custody row's signature check: {'signature_verification': {'verified': ...}}
SignatureVerificationMetadata(verified) ==
    "{signature_verification: {verified: " \o (IF verified THEN "true" ELSE "false") \o "}}"

\* The rows of one evidence item (evidence.custody_records)
custody_records(e) == {r \in custody : r.evidence = e}

\* queryset.order_by('action_timestamp')
RECURSIVE OrderByActionTimestamp(_)
OrderByActionTimestamp(records) ==
    IF records = {} THEN <<>>
    ELSE LET first == CHOOSE r \in records :
                          \A q \in records : r.action_timestamp <= q.action_timestamp
         IN <<first>> \o OrderByActionTimestamp(records \ {first})

create_custody_record_NotVerified(e, action, description, file_hash, integrity_verified, metadata, now) ==
    [evidence |-> e, action |-> action, description |-> description,
     file_hash_at_action |->
         IF file_hash \in {None, ""} THEN evidence_files[e].sha256_hash ELSE file_hash,
     integrity_verified |-> FALSE,
     metadata |-> IF metadata \in {None, ""} THEN EmptyMetadata ELSE metadata,
     action_timestamp |-> now]

\* CustodyService.create_custody_record: the row that is inserted
create_custody_record(e, action, description, file_hash, integrity_verified, metadata, now) ==
    [evidence |-> e, action |-> action, description |-> description,
     file_hash_at_action |->
         IF file_hash \in {None, ""} THEN evidence_files[e].sha256_hash ELSE file_hash,
     integrity_verified |-> integrity_verified,
     metadata |-> IF metadata \in {None, ""} THEN EmptyMetadata ELSE metadata,
     action_timestamp |-> now]

\* ChainOfCustody.objects.create(...) as the views call it: metadata defaults to {},
\* action_timestamp to timezone.now
objects_create_custody(e, action, description, file_hash_at_action, integrity_verified, now) ==
    [evidence |-> e, action |-> action, description |-> description,
     file_hash_at_action |-> file_hash_at_action,
     integrity_verified |-> integrity_verified,
     metadata |-> EmptyMetadata,
     action_timestamp |-> now]

\* EvidenceFile.sign_evidence(save=True): signs the record's own fields
evidence_sign_evidence(e, sha256_hash, now, salt) ==
    sign_evidence(sha256_hash, FileNameOf(e), FileSizeOf(e), Uploader, CaseOf(e), now, salt)

\* EvidenceFile.verify_signature(current_file_hash) -> (is_valid, error)
evidence_verify_signature(e, current_file_hash) ==
    IF evidence_files[e].digital_signature = NoPackage
    THEN [is_valid |-> FALSE, error |-> "No digital signature"]
    ELSE verify_file_integrity(evidence_files[e].digital_signature, current_file_hash)

CanAppend == clock <= MaxCustody

\* ChainOfCustody.Action.choices
ActionChoices == {"UPLOADED", "VIEWED", "DOWNLOADED", "DOWNLOAD_URL_GENERATED",
                  "EDITED", "SHARED", "VERIFIED", "EXPORTED"}

\* CustodyService.create_custody_record called by the workflow with its own
\* action and asserted digest; an action outside the choices raises ValidationError
CreateCustodyRecord(e, action, file_hash) ==
    /\ evidence_files[e].exists
    /\ CanAppend
    /\ action \in ActionChoices
    /\ custody' = custody \cup
          {create_custody_record(e, action, "", file_hash, FALSE, None, clock)}
    /\ clock' = clock + 1
    /\ UNCHANGED <<evidence_files, uploading, nonCustodyVars>>

\* EvidenceService.upload_evidence (@transaction.atomic): evidence row, UPLOADED
\* custody row, then the signature; sha256_hash is unique=True
ServiceUpload(c, auto_sign, salt) ==
    /\ ~evidence_files[c].exists
    /\ c \notin uploading
    /\ CanAppend
    /\ LET created == [exists |-> TRUE, sha256_hash |-> Sha256(c),
                       digital_signature |-> NoPackage, legal_hold |-> FALSE]
           files1 == [evidence_files EXCEPT ![c] = created]
           package == evidence_sign_evidence(c, created.sha256_hash, clock + 1, salt)
       IN /\ custody' = custody \cup
                {[evidence |-> c, action |-> "UPLOADED",
                  description |-> "Evidence uploaded: " \o FileNameOf(c),
                  file_hash_at_action |-> Sha256(c), integrity_verified |-> TRUE,
                  metadata |-> EmptyMetadata, action_timestamp |-> clock]}
          /\ evidence_files' =
                IF auto_sign
                THEN [files1 EXCEPT ![c].digital_signature = package]
                ELSE files1
    /\ clock' = clock + 1
    /\ UNCHANGED <<uploading, nonCustodyVars>>

\* EvidenceFileViewSet.upload lines 101-116: EvidenceFile.objects.create commits
ViewUploadCreate(c) ==
    /\ ~evidence_files[c].exists
    /\ c \notin uploading
    /\ evidence_files' = [evidence_files EXCEPT ![c] =
            [exists |-> TRUE, sha256_hash |-> Sha256(c),
             digital_signature |-> NoPackage, legal_hold |-> FALSE]]
    /\ uploading' = uploading \cup {c}
    /\ UNCHANGED <<clock, custody, nonCustodyVars>>

\* EvidenceFileViewSet.upload lines 119-128: the UPLOADED row, a second statement
ViewUploadCustody(c) ==
    /\ c \in uploading
    /\ CanAppend
    /\ custody' = custody \cup
          {objects_create_custody(c, "UPLOADED", "Evidence uploaded: " \o FileNameOf(c),
                                  Sha256(c), TRUE, clock)}
    /\ clock' = clock + 1
    /\ uploading' = uploading \ {c}
    /\ UNCHANGED <<evidence_files, nonCustodyVars>>

\* EvidenceFileViewSet.download
ViewDownload(e) ==
    /\ evidence_files[e].exists
    /\ ~evidence_files[e].legal_hold
    /\ CanAppend
    /\ custody' = custody \cup
          {objects_create_custody(e, "DOWNLOADED", "Evidence downloaded",
                                  evidence_files[e].sha256_hash, FALSE, clock)}
    /\ clock' = clock + 1
    /\ UNCHANGED <<evidence_files, uploading, nonCustodyVars>>

\* EvidenceFileViewSet.verify_integrity; is_valid is what the vault answers for
\* the stored blob
ViewVerifyIntegrity(e, is_valid) ==
    /\ evidence_files[e].exists
    /\ CanAppend
    /\ custody' = custody \cup
          {objects_create_custody(e, "VERIFIED", "Integrity verification performed",
                                  evidence_files[e].sha256_hash, is_valid, clock)}
    /\ clock' = clock + 1
    /\ UNCHANGED <<evidence_files, uploading, nonCustodyVars>>

\* EvidenceService.verify_evidence_integrity
ServiceVerifyIntegrity(e, is_valid) ==
    /\ evidence_files[e].exists
    /\ CanAppend
    /\ custody' = custody \cup
          {create_custody_record(e, "VERIFIED", "Integrity verification performed",
                                 evidence_files[e].sha256_hash, is_valid, None, clock)}
    /\ clock' = clock + 1
    /\ UNCHANGED <<evidence_files, uploading, nonCustodyVars>>

\* EvidenceService.verify_evidence_signature
ServiceVerifySignature(e, current_file_hash) ==
    /\ evidence_files[e].exists
    /\ CanAppend
    /\ LET hash_to_verify == IF current_file_hash \in {None, ""}
                             THEN evidence_files[e].sha256_hash
                             ELSE current_file_hash
           is_valid == evidence_verify_signature(e, hash_to_verify).is_valid
       IN custody' = custody \cup
            {create_custody_record(e, "VERIFIED",
                "Digital signature verified: " \o (IF is_valid THEN "Valid" ELSE "Invalid"),
                hash_to_verify, is_valid, None, clock)}
    /\ clock' = clock + 1
    /\ UNCHANGED <<evidence_files, uploading, nonCustodyVars>>

\* CustodyService.create_with_verification: the row, then the signature check
\* recorded in the row's metadata
ServiceCreateWithVerification(e, action) ==
    /\ evidence_files[e].exists
    /\ CanAppend
    /\ LET row == create_custody_record(e, action, "", evidence_files[e].sha256_hash,
                                        FALSE, None, clock)
           verified == evidence_verify_signature(e, evidence_files[e].sha256_hash).is_valid
       IN custody' = custody \cup
            {IF evidence_files[e].digital_signature # NoPackage
             THEN [row EXCEPT !.metadata = SignatureVerificationMetadata(verified)]
             ELSE row}
    /\ clock' = clock + 1
    /\ UNCHANGED <<evidence_files, uploading, nonCustodyVars>>

\* ChainOfCustodyAdmin (a plain ModelAdmin): the change form saves an edited row
AdminActions == {"VIEWED"}

AdminChangeCustody(r, action) ==
    /\ r \in custody
    /\ action # r.action
    /\ custody' = (custody \ {r}) \cup {[r EXCEPT !.action = action]}
    /\ UNCHANGED <<clock, evidence_files, uploading, nonCustodyVars>>

\* ChainOfCustodyAdmin: the delete view removes a row
AdminDeleteCustody(r) ==
    /\ r \in custody
    /\ custody' = custody \ {r}
    /\ UNCHANGED <<clock, evidence_files, uploading, nonCustodyVars>>

\* CustodyService.validate_custody_chain lines 252-259 mutated: digests are not compared
hash_issues_Skipped(records, expected_hash) == <<>>

\* CustodyService.validate_custody_chain lines 252-259: one issue per row whose
\* recorded digest is set and differs from evidence.sha256_hash
hash_issues(records, expected_hash) ==
    LET mismatch(i) == /\ records[i].file_hash_at_action # ""
                       /\ records[i].file_hash_at_action # expected_hash
        F[i \in 0..Len(records)] ==
            IF i = 0 THEN <<>>
            ELSE IF mismatch(i)
                 THEN Append(F[i - 1], "Hash mismatch at "
                                \o isoformat(records[i].action_timestamp)
                                \o ": expected " \o expected_hash
                                \o ", found " \o records[i].file_hash_at_action)
                 ELSE F[i - 1]
    IN F[Len(records)]

\* CustodyService.validate_custody_chain lines 246-250
first_action_issues(records) ==
    IF records[1].action # "UPLOADED"
    THEN <<"First action should be UPLOADED, found " \o records[1].action>>
    ELSE <<>>

\* CustodyService.validate_custody_chain lines 262-272
signature_issues(e, records) ==
    IF evidence_files[e].digital_signature # NoPackage
       /\ ~\E i \in 1..Len(records) :
              /\ records[i].action = "VERIFIED"
              /\ records[i].metadata = SignatureVerificationMetadata(TRUE)
    THEN <<"Digital signature has not been verified">>
    ELSE <<>>

\* CustodyService.validate_custody_chain -> (is_valid, issues)
validate_custody_chain(e) ==
    LET records == OrderByActionTimestamp(custody_records(e)) IN
      IF Len(records) = 0
      THEN [is_valid |-> FALSE, issues |-> <<"No custody records found">>]
      ELSE LET issues == first_action_issues(records)
                           \o hash_issues(records, evidence_files[e].sha256_hash)
                           \o signature_issues(e, records)
           IN [is_valid |-> Len(issues) = 0, issues |-> issues]

InitCustody ==
    /\ evidence_files = [c \in Contents |-> NoEvidence]
    /\ custody = {}
    /\ uploading = {}

\* ---------------------------------------------------------------- court bundle
BundleContents == {"c1", "c2", "c3"}
BundleId == 1
CreatedBy == 1

\* KeyManager.get_ed25519_private_key(): the configured bundle key
get_ed25519_private_key == "ed25519-key-1"

get_ed25519_public_key == public_key(get_ed25519_private_key)

\* private_key.sign(payload_bytes): Ed25519 is deterministic
ed25519_sign(private_key, payload_bytes) ==
    "ed25519[" \o private_key \o "](" \o payload_bytes \o ")"

\* public_key.verify(signature, payload_bytes) does not raise InvalidSignature
ed25519_verify(pub, signature, payload_bytes) ==
    /\ pub = public_key(get_ed25519_private_key)
    /\ signature = ed25519_sign(get_ed25519_private_key, payload_bytes)

\* Python's order on the hex digests that occur
HashOrder == <<Sha256("c1"), Sha256("c2"), Sha256("c3")>>
Rank(h) == CHOOSE i \in 1..Len(HashOrder) : HashOrder[i] = h

RemoveAt(list, i) == SubSeq(list, 1, i - 1) \o SubSeq(list, i + 1, Len(list))

\* sign_bundle line 430 mutated: the list is signed in the order it was given
sorted_InputOrder(list) == list

\* sorted(evidence_hashes)
RECURSIVE sorted(_)
sorted(list) ==
    IF list = <<>> THEN <<>>
    ELSE LET i == CHOOSE i \in 1..Len(list) :
                      \A j \in 1..Len(list) : Rank(list[i]) <= Rank(list[j])
         IN <<list[i]>> \o sorted(RemoveAt(list, i))

\* json.dumps of a list of strings
RECURSIVE json_dumps_list(_)
json_dumps_list(list) ==
    IF list = <<>> THEN ""
    ELSE list[1] \o (IF Len(list) > 1 THEN ", " ELSE "") \o json_dumps_list(Tail(list))

\* json.dumps of the manifest's evidence_files entries (keys sorted)
RECURSIVE json_dumps_entries(_)
json_dumps_entries(entries) ==
    IF entries = <<>> THEN ""
    ELSE "{sequence_number: " \o ToString(entries[1].sequence_number)
            \o ", sha256_hash: " \o entries[1].sha256_hash \o "}"
            \o (IF Len(entries) > 1 THEN ", " ELSE "")
            \o json_dumps_entries(Tail(entries))

\* json.dumps(manifest, sort_keys=True)
json_dumps_manifest(manifest) ==
    "{bundle_id: " \o manifest.bundle_id
        \o ", evidence_count: " \o ToString(manifest.evidence_count)
        \o ", evidence_files: [" \o json_dumps_entries(manifest.evidence_files) \o "]}"

\* json.dumps(payload, sort_keys=True) of the bundle payload
json_dumps_bundle(payload) ==
    "{bundle_id: " \o ToString(payload.bundle_id)
        \o ", case_id: " \o ToString(payload.case_id)
        \o ", created_by: " \o ToString(payload.created_by)
        \o ", evidence_hashes: [" \o json_dumps_list(payload.evidence_hashes) \o "]"
        \o ", manifest: " \o json_dumps_manifest(payload.manifest)
        \o ", timestamp: " \o payload.timestamp \o "}"

\* CourtBundleService._generate_manifest: entries in the order the files were given
generate_manifest(bundle_id, files) ==
    [bundle_id |-> ToString(bundle_id),
     evidence_count |-> Len(files),
     evidence_files |-> [idx \in 1..Len(files) |->
                            [sequence_number |-> idx,
                             sha256_hash |-> Sha256(files[idx])]]]

EmptyManifest == [bundle_id |-> "", evidence_count |-> 0, evidence_files |-> <<>>]

NoBundlePayload == [bundle_id |-> 0, case_id |-> 0, evidence_hashes |-> <<>>,
                    manifest |-> EmptyManifest, created_by |-> 0, timestamp |-> ""]
NoBundlePackage == [signature |-> "", algorithm |-> "", key_id |-> "", signed_at |-> "",
                    payload |-> NoBundlePayload]

\* CourtBundleSignature.sign_bundle; now is datetime.utcnow()
sign_bundle(bundle_id, case_id, evidence_hashes, manifest, created_by_id, now) ==
    LET payload == [bundle_id |-> bundle_id, case_id |-> case_id,
                    evidence_hashes |-> sorted(evidence_hashes),
                    manifest |-> manifest, created_by |-> created_by_id,
                    timestamp |-> isoformat(now) \o "Z"]
        payload_bytes == json_dumps_bundle(payload)
        signature == ed25519_sign(get_ed25519_private_key, payload_bytes)
    IN  [signature |-> b64encode(signature),
         algorithm |-> "Ed25519",
         key_id |-> "default",
         signed_at |-> payload.timestamp,
         payload |-> payload]

\* CourtBundleSignature.verify_bundle mutated: the payload bytes are not re-derived
\* and checked against the signature
verify_bundle_Unchecked(signature_data) ==
    IF \/ signature_data.signature = ""
       \/ signature_data.payload = NoBundlePayload
       \/ signature_data.algorithm = ""
    THEN [is_valid |-> FALSE, error |-> "Missing signature components"]
    ELSE IF signature_data.algorithm # "Ed25519"
    THEN [is_valid |-> FALSE,
          error |-> "Unsupported algorithm: " \o signature_data.algorithm]
    ELSE [is_valid |-> TRUE, error |-> None]

\* CourtBundleSignature.verify_bundle -> (is_valid, error_message)
verify_bundle(signature_data) ==
    IF \/ signature_data.signature = ""
       \/ signature_data.payload = NoBundlePayload
       \/ signature_data.algorithm = ""
    THEN [is_valid |-> FALSE, error |-> "Missing signature components"]
    ELSE IF signature_data.algorithm # "Ed25519"
    THEN [is_valid |-> FALSE,
          error |-> "Unsupported algorithm: " \o signature_data.algorithm]
    ELSE IF ~IsBase64(signature_data.signature)
    THEN [is_valid |-> FALSE, error |-> "Verification error: Incorrect padding"]
    ELSE IF ~ed25519_verify(get_ed25519_public_key, b64decode(signature_data.signature),
                            json_dumps_bundle(signature_data.payload))
    THEN [is_valid |-> FALSE, error |-> "Bundle signature is invalid"]
    ELSE [is_valid |-> TRUE, error |-> None]

\* CourtBundle.verify_bundle_signature(): the stored signature is verified
\* against the manifest the bundle holds now
bundle_verify_bundle_signature ==
    IF manifest_signature = NoBundlePackage
    THEN [is_valid |-> FALSE, error |-> "Bundle has no signature"]
    ELSE verify_bundle([manifest_signature EXCEPT !.payload.manifest = bundle.manifest])

NoBundle == [exists |-> FALSE, evidence_files |-> <<>>, manifest |-> EmptyManifest]

\* All orderings of a set of contents
Orderings(S) ==
    {f \in [1..Cardinality(S) -> S] : \A i, j \in 1..Cardinality(S) : i # j => f[i] # f[j]}

\* CourtBundleService.create_bundle: the row, its evidence files, its manifest
CreateBundle(files) ==
    /\ ~bundle.exists
    /\ bundle' = [exists |-> TRUE, evidence_files |-> files,
                  manifest |-> generate_manifest(BundleId, files)]
    /\ UNCHANGED <<clock, manifest_signature, bundle_signings, bundle_result, nonBundleVars>>

\* CourtBundle.sign_bundle(save=True) from generate_bundle_file: the hashes of
\* bundle.evidence_files.all(), in whatever order the query returns them
SignBundle(order) ==
    /\ bundle.exists
    /\ LET evidence_hashes == [i \in 1..Len(order) |-> Sha256(order[i])]
           package == sign_bundle(BundleId, 7, evidence_hashes, bundle.manifest,
                                  CreatedBy, clock)
       IN /\ manifest_signature' = package
          /\ bundle_signings' =
                (IF Len(bundle_signings) < 2 THEN bundle_signings
                 ELSE Tail(bundle_signings))
                    \o <<[evidence_hashes |-> evidence_hashes, package |-> package]>>
    /\ UNCHANGED <<clock, bundle, bundle_result, nonBundleVars>>

\* Time passes between two calls.
Tick ==
    /\ clock <= MaxTicks
    /\ clock' = clock + 1
    /\ UNCHANGED <<bundleVars, nonBundleVars>>

\* One evidence reference is removed from the stored manifest after signing.
RemoveManifestReference(i) ==
    /\ manifest_signature # NoBundlePackage
    /\ bundle.manifest = generate_manifest(BundleId, bundle.evidence_files)
    /\ i \in 1..Len(bundle.manifest.evidence_files)
    /\ bundle' = [bundle EXCEPT !.manifest.evidence_files = RemoveAt(@, i)]
    /\ UNCHANGED <<clock, manifest_signature, bundle_signings, bundle_result, nonBundleVars>>

\* CourtBundleService.verify_bundle_signature
VerifyBundleSignature ==
    /\ bundle.exists
    /\ bundle_result' = bundle_verify_bundle_signature
    /\ UNCHANGED <<clock, bundle, manifest_signature, bundle_signings, nonBundleVars>>

InitBundle ==
    /\ bundle = NoBundle
    /\ manifest_signature = NoBundlePackage
    /\ bundle_signings = <<>>
    /\ bundle_result = NoResult

\* ---------------------------------------------------------------- verification of received packages
\* verify_evidence and verify_bundle are handed packages from outside: the
\* package a signing call returned, with its signature text, algorithm and
\* payload each left as signed, removed, or replaced.
SignedEvidencePackage == sign_evidence(Sha256("c1"), "a.pdf", 10, 1, 7, 1, "s1")

SignedBundlePackage ==
    sign_bundle(BundleId, 7, <<Sha256("c1"), Sha256("c2")>>,
                generate_manifest(BundleId, <<"c1", "c2">>), CreatedBy, 1)

SignatureTexts(package) ==
    {package.signature, "", "!!!!", package.signature \o "!", "not base64",
     b64encode("forged")}

EvidencePackages ==
    {[SignedEvidencePackage EXCEPT !.signature = sig, !.algorithm = alg, !.payload = pl] :
        sig \in SignatureTexts(SignedEvidencePackage),
        alg \in {SignedEvidencePackage.algorithm, "", "Ed25519"},
        pl \in {SignedEvidencePackage.payload, NoPayload}}

BundlePackages ==
    {[SignedBundlePackage EXCEPT !.signature = sig, !.algorithm = alg, !.payload = pl] :
        sig \in SignatureTexts(SignedBundlePackage),
        alg \in {SignedBundlePackage.algorithm, "", "RSA-4096-PSS-SHA256"},
        pl \in {SignedBundlePackage.payload, NoBundlePayload}}

ReceiveEvidencePackage(package) ==
    /\ sig_pkg' = package
    /\ sig_result' = NoResult
    /\ UNCHANGED <<clock, sig_orig, sig_changed, nonSignVars>>

\* EvidenceSignature.verify_evidence(signature_data)
VerifyEvidencePackage ==
    /\ sig_pkg # NoPackage
    /\ sig_result' = verify_evidence(sig_pkg)
    /\ UNCHANGED <<clock, sig_orig, sig_pkg, sig_changed, nonSignVars>>

ReceiveBundlePackage(package) ==
    /\ manifest_signature' = package
    /\ bundle_result' = NoResult
    /\ UNCHANGED <<clock, bundle, bundle_signings, nonBundleVars>>

\* CourtBundleSignature.verify_bundle(signature_data)
VerifyBundlePackage ==
    /\ manifest_signature # NoBundlePackage
    /\ bundle_result' = verify_bundle(manifest_signature)
    /\ UNCHANGED <<clock, bundle, manifest_signature, bundle_signings, nonBundleVars>>

\* ---------------------------------------------------------------- evidence vault (evidence/storage.py)
\* Bytes that the vault builds by concatenation and takes apart by slicing
\* are sequences of fields: final_content = iv + tag + encrypted_content is
\* <<iv, tag, encrypted_content>>, and content stored without encryption is
\* the one-field sequence <<file_content>>.  AES-256-GCM is symbolic: the
\* counter-mode body names its key, nonce and plaintext, and the tag names
\* its key, nonce and body, so only the matching triple authenticates.
EncryptionKeys == {b64encode("k1"), b64encode("k2")}
Ivs == {"iv1", "iv2"}
Plaintexts == {"", "c1", "c2"}

ctr_prefix(key, iv) == "ctr[" \o key \o "," \o iv \o "]("

\* encryptor.update(file_content) + encryptor.finalize()
gcm_update(key, iv, file_content) == ctr_prefix(key, iv) \o file_content \o ")"

\* encryptor.tag
gcm_tag(key, iv, ciphertext) == "gmac[" \o key \o "," \o iv \o "](" \o ciphertext \o ")"

\* decryptor.update(ciphertext): counter mode maps any bytes to some bytes
gcm_decrypt_update(key, iv, ciphertext) ==
    LET p == ctr_prefix(key, iv)
        n == Len(ciphertext)
    IN  IF /\ n > Len(p)
           /\ SubSeq(ciphertext, 1, Len(p)) = p
           /\ SubSeq(ciphertext, n, n) = ")"
        THEN SubSeq(ciphertext, Len(p) + 1, n - 1)
        ELSE "garbage(" \o ciphertext \o ")"

gcm_finalize_Unchecked(key, iv, tag, ciphertext) == TRUE

\* decryptor.finalize(): TRUE if the tag authenticates, else InvalidTag is raised
gcm_finalize(key, iv, tag, ciphertext) == tag = gcm_tag(key, iv, ciphertext)

\* s[:n]
Prefix(s, n) == SubSeq(s, 1, IF n < Len(s) THEN n ELSE Len(s))

\* hashlib.sha256(key).hexdigest()[:16]
key_id_of(key) == Prefix(Sha256(key), 16)

\* EvidenceVault.encrypt_file, with iv the value os.urandom(16) returns
encrypt_file(file_content, iv) ==
    LET key == b64decode(encryption_key)
        encrypted_content == gcm_update(key, iv, file_content)
        tag == gcm_tag(key, iv, encrypted_content)
    IN  [final_content |-> <<iv, tag, encrypted_content>>,
         key_id |-> key_id_of(key),
         iv |-> b64encode(iv)]

\* encrypted_content[a:b] for the three slices decrypt_file takes
Field(data, i) == IF i <= Len(data) THEN data[i] ELSE ""

Returned(value) == [raised |-> None, value |-> value]
Raised(exception) == [raised |-> exception, value |-> None]

\* EvidenceVault.decrypt_file: the except clause logs and re-raises
decrypt_file(encrypted_content) ==
    LET key == b64decode(encryption_key)
        iv == Field(encrypted_content, 1)
        tag == Field(encrypted_content, 2)
        ciphertext == Field(encrypted_content, 3)
        decrypted_content == gcm_decrypt_update(key, iv, ciphertext)
    IN  IF gcm_finalize(key, iv, tag, ciphertext)
        THEN Returned(decrypted_content)
        ELSE Raised("InvalidTag")

MaxBit == 2
EnvelopeParts == {"nonce", "tag", "body"}
PartIndex(part) == CASE part = "nonce" -> 1 [] part = "tag" -> 2 [] part = "body" -> 3

\* the bytes s with one bit inverted
FlipBit(s, bit) == s \o "^" \o ToString(bit)

NoEnvelope == [plain |-> "", data |-> <<>>, flipped |-> ""]
NotCalled == [raised |-> "", value |-> ""]

\* encrypt_file(file_content)
EncryptFile(file_content, iv) ==
    /\ envelope' = [plain |-> file_content,
                    data |-> encrypt_file(file_content, iv).final_content,
                    flipped |-> ""]
    /\ decrypt_result' = NotCalled
    /\ UNCHANGED <<clock, encryption_key, storeVars, nonVaultVars>>

\* One bit of the envelope is inverted between encrypt_file and decrypt_file.
FlipEnvelopeBit(part, bit) ==
    /\ envelope.data # <<>>
    /\ envelope.flipped = ""
    /\ envelope' = [envelope EXCEPT
                      !.data[PartIndex(part)] = FlipBit(@, bit),
                      !.flipped = part]
    /\ decrypt_result' = NotCalled
    /\ UNCHANGED <<clock, encryption_key, storeVars, nonVaultVars>>

\* decrypt_file(encrypted_content)
DecryptFile ==
    /\ envelope.data # <<>>
    /\ decrypt_result' = decrypt_file(envelope.data)
    /\ UNCHANGED <<clock, encryption_key, envelope, storeVars, nonVaultVars>>

\* ---- the bucket ----
MaxUploads == 2
bucket_name == "cms-evidence-vault"
VaultCaseIds == {7, 8}
VaultContents == {"c1", "c2"}
VaultFileNames == {"a", "a.enc"}
MissingPath == "cases/7/evidence/" \o Sha256("c1") \o "/missing"

\* storage_path.endswith(suffix)
endswith(s, suffix) ==
    /\ Len(s) >= Len(suffix)
    /\ SubSeq(s, Len(s) - Len(suffix) + 1, Len(s)) = suffix

\* the bytes of an object as the caller of get_object(...).read() sees them
Bytes(data) == Field(data, 1) \o Field(data, 2) \o Field(data, 3)

\* client.put_object(bucket_name, object_name, data, ...): creates or replaces
put_object(store, object_name, data) ==
    [p \in DOMAIN store \cup {object_name} |->
        IF p = object_name THEN data ELSE store[p]]

\* client.remove_object(bucket_name, object_name); removing a missing key succeeds
remove_object(store, object_name) ==
    [p \in DOMAIN store \ {object_name} |-> store[p]]

\* EvidenceVault.upload_evidence up to the put_object call: what is stored
\* where, and the dict that is returned
upload_evidence(file_content, file_name, case_id, encrypt, iv) ==
    LET file_hash == Sha256(file_content)
        base_path == "cases/" \o ToString(case_id) \o "/evidence/"
                         \o file_hash \o "/" \o file_name
        encrypted == encrypt_file(file_content, iv)
    IN  [final_content |-> IF encrypt THEN encrypted.final_content
                           ELSE <<file_content>>,
         storage_path |-> IF encrypt THEN base_path \o ".enc" ELSE base_path,
         sha256_hash |-> file_hash,
         file_size |-> Len(file_content),
         is_encrypted |-> encrypt,
         encryption_key_id |-> IF encrypt THEN encrypted.key_id ELSE None,
         iv |-> IF encrypt THEN encrypted.iv ELSE None]

\* EvidenceVault.download_evidence against the bucket 'store'
download_evidence(store, storage_path, decrypt) ==
    IF storage_path \notin DOMAIN store
    THEN Raised("S3Error")
    ELSE IF decrypt /\ endswith(storage_path, ".enc")
         THEN decrypt_file(store[storage_path])
         ELSE Returned(Bytes(store[storage_path]))

verify_integrity_TrueOnError(store, storage_path, expected_hash) ==
    LET file_content == download_evidence(store, storage_path, TRUE)
    IN  file_content.raised = None => Sha256(file_content.value) = expected_hash

\* EvidenceVault.verify_integrity: any exception is logged and False returned
verify_integrity(store, storage_path, expected_hash) ==
    LET file_content == download_evidence(store, storage_path, TRUE)
    IN  IF file_content.raised # None
        THEN FALSE
        ELSE Sha256(file_content.value) = expected_hash

\* EvidenceVault.generate_presigned_download_url; presigned_get_object signs
\* the request locally and does not look the object up
generate_presigned_download_url(storage_path, expiry_seconds) ==
    Returned("https://minio/" \o bucket_name \o "/" \o storage_path
                 \o "?X-Amz-Expires=" \o ToString(expiry_seconds))

NoCall == [op |-> "", storage_path |-> "", flag |-> FALSE, expected_hash |-> "",
           result |-> NotCalled]

\* EvidenceVault.upload_evidence
UploadEvidence(file_content, file_name, case_id, encrypt, iv) ==
    LET up == upload_evidence(file_content, file_name, case_id, encrypt, iv)
    IN  /\ Cardinality(uploads) < MaxUploads
        /\ objects' = put_object(objects, up.storage_path, up.final_content)
        /\ uploads' = uploads \cup
              {[file_content |-> file_content, file_name |-> file_name,
                case_id |-> case_id, encrypt |-> encrypt,
                storage_path |-> up.storage_path, sha256_hash |-> up.sha256_hash]}
        /\ vault_result' = [NoCall EXCEPT !.op = "upload",
                               !.storage_path = up.storage_path,
                               !.flag = encrypt,
                               !.result = Returned(up.sha256_hash)]
        /\ flipped_path' = IF flipped_path = up.storage_path THEN "" ELSE flipped_path
        /\ UNCHANGED <<clock, encryption_key, envelopeVars, nonVaultVars>>

\* One bit of one stored object is inverted behind the vault's back.
FlipStoredBit(storage_path, i, bit) ==
    /\ flipped_path = ""
    /\ storage_path \in DOMAIN objects
    /\ i \in 1..Len(objects[storage_path])
    /\ objects' = [objects EXCEPT ![storage_path][i] = FlipBit(@, bit)]
    /\ flipped_path' = storage_path
    /\ UNCHANGED <<clock, encryption_key, envelopeVars, uploads, vault_result, nonVaultVars>>

\* EvidenceVault.download_evidence
DownloadEvidence(storage_path, decrypt) ==
    /\ vault_result' = [NoCall EXCEPT !.op = "download",
                           !.storage_path = storage_path,
                           !.flag = decrypt,
                           !.result = download_evidence(objects, storage_path, decrypt)]
    /\ UNCHANGED <<clock, encryption_key, envelopeVars, objects, uploads, flipped_path, nonVaultVars>>

\* EvidenceVault.verify_integrity
VerifyIntegrity(storage_path, expected_hash) ==
    /\ vault_result' = [NoCall EXCEPT !.op = "verify",
                           !.storage_path = storage_path,
                           !.expected_hash = expected_hash,
                           !.result = Returned(
                               verify_integrity(objects, storage_path, expected_hash))]
    /\ UNCHANGED <<clock, encryption_key, envelopeVars, objects, uploads, flipped_path, nonVaultVars>>

\* EvidenceVault.generate_presigned_download_url
GeneratePresignedDownloadUrl(storage_path) ==
    /\ vault_result' = [NoCall EXCEPT !.op = "presign",
                           !.storage_path = storage_path,
                           !.result = generate_presigned_download_url(storage_path, 3600)]
    /\ UNCHANGED <<clock, encryption_key, envelopeVars, objects, uploads, flipped_path, nonVaultVars>>

InitVault ==
    /\ envelope = NoEnvelope
    /\ decrypt_result = NotCalled
    /\ objects = [p \in {} |-> <<>>]
    /\ uploads = {}
    /\ flipped_path = ""
    /\ vault_result = NoCall

\* ---------------------------------------------------------------- evidence service on the vault
\* EvidenceService and EvidenceFileViewSet with the bucket behind them: the
\* vault's answers are computed from the stored objects.
NoStorage == [storage_path |-> "", is_encrypted |-> FALSE]
NoApiCall == [op |-> "", evidence |-> "", at |-> 0, auto_sign |-> FALSE,
              is_valid |-> FALSE, message |-> "", raised |-> ""]
NoOutcome == [via |-> "", is_valid |-> FALSE, message |-> "",
              action |-> "", integrity_verified |-> FALSE, description |-> ""]
Conditions == {"mismatch", "not_found"}

serviceFrame == <<auditVars, signVars, bundleVars, uploading, encryption_key,
                  envelopeVars, uploads, vault_result, laterVars>>

\* KeyManager.get_rsa_private_key: the key, or SignatureError when the
\* configured key material cannot be read or parsed
load_rsa_private_key(key_loads) ==
    IF key_loads THEN Returned(get_rsa_private_key) ELSE Raised("SignatureError")

\* EvidenceService.upload_evidence (@transaction.atomic) with the vault:
\* put_object, evidence row, UPLOADED custody row, then evidence.sign_evidence
\* inside try/except Exception, which logs the failure and goes on
ServiceUploadToVault(c, encrypt, auto_sign, key_loads, iv, salt) ==
    /\ ~evidence_files[c].exists
    /\ CanAppend
    /\ LET storage_metadata == upload_evidence(c, FileNameOf(c), CaseOf(c), encrypt, iv)
           created == [exists |-> TRUE, sha256_hash |-> storage_metadata.sha256_hash,
                       digital_signature |-> NoPackage, legal_hold |-> FALSE]
           files1 == [evidence_files EXCEPT ![c] = created]
           key == load_rsa_private_key(key_loads)
           package == evidence_sign_evidence(c, created.sha256_hash, clock + 1, salt)
       IN /\ objects' = put_object(objects, storage_metadata.storage_path,
                                   storage_metadata.final_content)
          /\ storage' = [storage EXCEPT ![c] =
                [storage_path |-> storage_metadata.storage_path,
                 is_encrypted |-> storage_metadata.is_encrypted]]
          /\ custody' = custody \cup
                {create_custody_record(c, "UPLOADED",
                                       "Evidence uploaded: " \o FileNameOf(c),
                                       storage_metadata.sha256_hash, TRUE, None, clock)}
          /\ evidence_files' =
                IF auto_sign /\ key.raised = None
                THEN [files1 EXCEPT ![c].digital_signature = package]
                ELSE files1
          /\ api_call' = [NoApiCall EXCEPT !.op = "upload_evidence", !.evidence = c,
                             !.at = clock, !.auto_sign = auto_sign, !.raised = None]
          /\ flipped_path' = IF flipped_path = storage_metadata.storage_path
                             THEN "" ELSE flipped_path
    /\ clock' = clock + 1
    /\ UNCHANGED <<outcome_of, serviceFrame>>

\* What is true of the stored object of evidence e when it is verified
Condition(e) ==
    IF storage[e].storage_path \notin DOMAIN objects THEN "not_found"
    ELSE IF flipped_path = storage[e].storage_path THEN "mismatch"
    ELSE "intact"

Observe(e, via, is_valid, message, record) ==
    IF Condition(e) \in Conditions
    THEN [outcome_of EXCEPT ![Condition(e)] =
             [via |-> via, is_valid |-> is_valid, message |-> message,
              action |-> record.action,
              integrity_verified |-> record.integrity_verified,
              description |-> record.description]]
    ELSE outcome_of

\* EvidenceService.verify_evidence_integrity -> (is_valid, message).  The
\* except branch needs get_evidence_vault() or the INSERT to raise; the vault
\* exists (it stored the evidence) and verify_integrity itself never raises.
ServiceVerifyEvidenceIntegrity(e) ==
    /\ evidence_files[e].exists
    /\ CanAppend
    /\ LET is_valid == verify_integrity(objects, storage[e].storage_path,
                                        evidence_files[e].sha256_hash)
           record == create_custody_record(e, "VERIFIED",
                         "Integrity verification performed",
                         evidence_files[e].sha256_hash, is_valid, None, clock)
           message == IF is_valid THEN "Integrity verified successfully"
                      ELSE "Integrity verification failed - hash mismatch"
       IN /\ custody' = custody \cup {record}
          /\ api_call' = [NoApiCall EXCEPT !.op = "verify_evidence_integrity",
                             !.evidence = e, !.at = clock,
                             !.is_valid = is_valid, !.message = message,
                             !.raised = None]
          /\ outcome_of' = Observe(e, "service", is_valid, message, record)
    /\ clock' = clock + 1
    /\ UNCHANGED <<evidence_files, objects, storage, flipped_path, serviceFrame>>

\* EvidenceFileViewSet.verify_integrity -> 200 {integrity_verified, message}
ViewSetVerifyIntegrity(e) ==
    /\ evidence_files[e].exists
    /\ CanAppend
    /\ LET is_valid == verify_integrity(objects, storage[e].storage_path,
                                        evidence_files[e].sha256_hash)
           record == objects_create_custody(e, "VERIFIED",
                         "Integrity verification performed",
                         evidence_files[e].sha256_hash, is_valid, clock)
           message == IF is_valid THEN "Integrity verified successfully"
                      ELSE "Integrity verification failed"
       IN /\ custody' = custody \cup {record}
          /\ api_call' = [NoApiCall EXCEPT !.op = "verify_integrity",
                             !.evidence = e, !.at = clock,
                             !.is_valid = is_valid, !.message = message,
                             !.raised = None]
          /\ outcome_of' = Observe(e, "view", is_valid, message, record)
    /\ clock' = clock + 1
    /\ UNCHANGED <<evidence_files, objects, storage, flipped_path, serviceFrame>>

\* EvidenceService.set_legal_hold
SetLegalHold(e) ==
    /\ evidence_files[e].exists
    /\ ~evidence_files[e].legal_hold
    /\ CanAppend
    /\ evidence_files' = [evidence_files EXCEPT ![e].legal_hold = TRUE]
    /\ custody' = custody \cup
          {create_custody_record(e, "VERIFIED", "Legal hold placed: reason",
                                 evidence_files[e].sha256_hash, FALSE, None, clock)}
    /\ api_call' = [NoApiCall EXCEPT !.op = "set_legal_hold", !.evidence = e,
                       !.at = clock, !.raised = None]
    /\ clock' = clock + 1
    /\ UNCHANGED <<objects, storage, flipped_path, outcome_of, serviceFrame>>

\* EvidenceService.release_legal_hold; ValidationError if not under hold
ReleaseLegalHold(e) ==
    /\ evidence_files[e].exists
    /\ evidence_files[e].legal_hold
    /\ CanAppend
    /\ evidence_files' = [evidence_files EXCEPT ![e].legal_hold = FALSE]
    /\ custody' = custody \cup
          {create_custody_record(e, "VERIFIED", "Legal hold released: reason",
                                 evidence_files[e].sha256_hash, FALSE, None, clock)}
    /\ api_call' = [NoApiCall EXCEPT !.op = "release_legal_hold", !.evidence = e,
                       !.at = clock, !.raised = None]
    /\ clock' = clock + 1
    /\ UNCHANGED <<objects, storage, flipped_path, outcome_of, serviceFrame>>

\* DELETE /files/<id>/: ModelViewSet.destroy calls instance.delete(); the
\* custody rows go with the evidence row (on_delete=CASCADE), the object stays
ViewSetDestroy(e) ==
    /\ evidence_files[e].exists
    /\ evidence_files' = [evidence_files EXCEPT ![e] = NoEvidence]
    /\ storage' = [storage EXCEPT ![e] = NoStorage]
    /\ custody' = custody \ custody_records(e)
    /\ api_call' = [NoApiCall EXCEPT !.op = "destroy", !.evidence = e,
                       !.at = clock, !.raised = None]
    /\ UNCHANGED <<clock, objects, flipped_path, outcome_of, serviceFrame>>

\* EvidenceVault.delete_evidence(storage_path)
DeleteEvidence(e) ==
    /\ evidence_files[e].exists
    /\ storage[e].storage_path \in DOMAIN objects
    /\ objects' = remove_object(objects, storage[e].storage_path)
    /\ api_call' = [NoApiCall EXCEPT !.op = "delete_evidence", !.evidence = e,
                       !.at = clock, !.raised = None]
    /\ UNCHANGED <<clock, evidence_files, custody, storage, flipped_path,
                   outcome_of, serviceFrame>>

InitService ==
    /\ storage = [e \in Contents |-> NoStorage]
    /\ api_call = NoApiCall
    /\ outcome_of = [c \in Conditions |-> NoOutcome]

\* ---------------------------------------------------------------- audit ledger: the hashed tuple
\* path_parts[3], path_parts[4] of the audited paths; a path segment may hold ':'
ResourceTypes == {"cases", "evidence"}
ResourceIds == {"7", "7:T1"}

\* Instances as AuditLog.objects.create builds them, before save() runs; two
\* handlers may have read the same timezone.now().
NewInstances ==
    {[user_id |-> u, action |-> action_map(m), resource_type |-> rt, resource_id |-> rid,
      timestamp |-> t, previous_log_hash |-> "", log_hash |-> ""] :
        u \in Users, m \in Methods, rt \in ResourceTypes, rid \in ResourceIds, t \in 1..2}

\* ---------------------------------------------------------------- audit ledger: lifetime of an entry
\* AuditLog.user, AuditLog.tenant: on_delete=models.SET_NULL, null=True
NULL == 0

Tenants == {1}

\* User.tenant (on_delete=models.CASCADE)
TenantOf(u) == 1

\* cleanup_old_logs: retention_days; the clock counts days in this part
retention_days == 2555

NoAuditOp == [op |-> ""]

\* AuditLog.save on an instance: lines 77-84 only when log_hash is empty
AuditLogSave(instance, logs) ==
    IF instance.log_hash = ""
    THEN LET prev == PreviousLogHash(logs) IN
           [instance EXCEPT !.previous_log_hash = prev,
                            !.log_hash = LogHash(instance, prev)]
    ELSE instance

\* AuditLog.objects.create(...) by one handler with no other append in between
AuditLogCreate(r) ==
    /\ r.user \in users
    /\ Cardinality(audit_logs) < MaxLogs
    /\ LET instance == [user_id |-> r.user, action |-> action_map(r.method),
                        resource_type |-> r.resource_type, resource_id |-> r.resource_id,
                        timestamp |-> clock, previous_log_hash |-> "", log_hash |-> ""]
           saved == AuditLogSave(instance, audit_logs)
       IN audit_logs' = IF \E e \in audit_logs : e.log_hash = saved.log_hash
                        THEN audit_logs
                        ELSE audit_logs \cup {saved}
    /\ clock' = clock + 1
    /\ audit_op' = [op |-> "create"]
    /\ UNCHANGED <<workers, pc, req, tampered, users, tenants>>

\* AuditLogAdmin change view: every field is in readonly_fields, so the form
\* carries no value and save_model calls obj.save() on the row as loaded.
AdminChangeAuditLog(e) ==
    /\ e \in audit_logs
    /\ audit_logs' = (audit_logs \ {e}) \cup {AuditLogSave(e, audit_logs)}
    /\ audit_op' = [op |-> "admin_change"]
    /\ UNCHANGED <<clock, workers, pc, req, tampered, users, tenants>>

\* The collector's SET_NULL update of audit_logs.user_id for deleted users
SetNullUser(logs, deleted) ==
    {IF e.user_id \in deleted THEN [e EXCEPT !.user_id = NULL] ELSE e : e \in logs}

\* UserViewSet.destroy / UserAdmin delete: instance.delete()
DeleteUser(u) ==
    /\ u \in users
    /\ users' = users \ {u}
    /\ audit_logs' = SetNullUser(audit_logs, {u})
    /\ audit_op' = [op |-> "delete_user"]
    /\ UNCHANGED <<clock, workers, pc, req, tampered, tenants>>

\* TenantViewSet.destroy / TenantAdmin delete: instance.delete() cascades to
\* the tenant's users, whose audit entries get user_id NULL.
DeleteTenant(t) ==
    /\ t \in tenants
    /\ tenants' = tenants \ {t}
    /\ LET deleted == {u \in users : TenantOf(u) = t} IN
         /\ users' = users \ deleted
         /\ audit_logs' = SetNullUser(audit_logs, deleted)
    /\ audit_op' = [op |-> "delete_tenant"]
    /\ UNCHANGED <<clock, workers, pc, req, tampered>>

\* cleanup_old_logs lines 21-26
cutoff_date(now) == now - retention_days

cleanup_old_logs(logs, now) == {e \in logs : ~(e.timestamp < cutoff_date(now))}

CleanupOldLogs ==
    /\ audit_logs' = cleanup_old_logs(audit_logs, clock)
    /\ audit_op' = [op |-> "cleanup_old_logs"]
    /\ UNCHANGED <<clock, workers, pc, req, tampered, users, tenants>>

\* Days go by between operations.
PassDays(days) ==
    /\ clock + days <= retention_days + MaxLogs + 1
    /\ clock' = clock + days
    /\ UNCHANGED <<auditVars, accountVars>>

InitAccounts ==
    /\ users = Users
    /\ tenants = Tenants
    /\ audit_op = NoAuditOp


\* ---------------------------------------------------------------- custody ledger: concurrent appends
NoRow == [evidence |-> "", action |-> "", description |-> "", file_hash_at_action |-> "",
          integrity_verified |-> FALSE, metadata |-> EmptyMetadata, action_timestamp |-> 0]

raceFrame == <<auditVars, signVars, evidence_files, uploading, bundleVars, vaultVars,
               serviceVars, accountVars, keyVars, genVars, lersVars>>

\* CustodyService.create_custody_record lines 72-86: the action is validated and
\* the keyword arguments are evaluated, action_timestamp=timezone.now() among them.
\* Nothing is locked: another handler may be anywhere in the same function.
CustodyReadNow(w, e, action) ==
    /\ custody_pending[w] = NoRow
    /\ evidence_files[e].exists
    /\ action \in ActionChoices
    /\ Len(custody_order) + Cardinality({v \in workers : custody_pending[v] # NoRow}) < MaxCustody
    /\ custody_pending' = [custody_pending EXCEPT ![w] =
           create_custody_record(e, action, "", None, FALSE, None, clock)]
    /\ UNCHANGED <<clock, custody, custody_order, raceFrame>>

\* ChainOfCustody.objects.create: the INSERT takes effect
CustodyInsert(w) ==
    /\ custody_pending[w] # NoRow
    /\ custody' = custody \cup {custody_pending[w]}
    /\ custody_order' = Append(custody_order, custody_pending[w])
    /\ custody_pending' = [custody_pending EXCEPT ![w] = NoRow]
    /\ UNCHANGED <<clock, raceFrame>>

\* timezone.now() moves on between two reads, or does not.
ClockAdvance ==
    /\ clock <= MaxCustody
    /\ clock' = clock + 1
    /\ UNCHANGED <<custody, raceVars, raceFrame>>

InitRace ==
    /\ custody_pending = [w \in WorkerIds |-> NoRow]
    /\ custody_order = <<>>


\* ---------------------------------------------------------------- key manager (core/crypto.py)
KeyTypes == {"rsa", "ed25519"}

\* hasattr(settings, '<TYPE>_PRIVATE_KEY_PATH'), hasattr(settings, '<TYPE>_PRIVATE_KEY_PEM')
Materials == {"PATH", "PEM", None}

\* KeyManager._get_cache_key(key_type, 'private')
cache_key(key_type) == "crypto_key:" \o key_type \o ":private"

\* serialization.load_pem_private_key of the configured material
load_pem_private_key(key_type) ==
    IF key_type = "rsa" THEN get_rsa_private_key ELSE get_ed25519_private_key

\* rsa.generate_private_key(...) / Ed25519PrivateKey.generate(): a key no
\* earlier call has produced
generate_private_key(key_type, n) == "ephemeral-" \o key_type \o "-" \o ToString(n)

keyFrame == <<clock, auditVars, signVars, custodyVars, bundleVars, vaultVars, serviceVars,
              accountVars, raceVars, genVars, lersVars>>

\* get_rsa_private_key / get_ed25519_private_key lines 82-84: cache.get hits
KeyCacheHit(w, key_type) ==
    /\ key_loading[w] = ""
    /\ key_cache[cache_key(key_type)] # None
    /\ key_returned' = [key_returned EXCEPT ![key_type] = @ \cup {key_cache[cache_key(key_type)]}]
    /\ UNCHANGED <<key_material, key_cache, key_loading, key_generated, keyFrame>>

\* lines 82-86: cache.get misses and the call goes on to load the key
KeyCacheMiss(w, key_type) ==
    /\ key_loading[w] = ""
    /\ key_cache[cache_key(key_type)] = None
    /\ key_loading' = [key_loading EXCEPT ![w] = key_type]
    /\ UNCHANGED <<key_material, key_cache, key_returned, key_generated, keyFrame>>

\* lines 87-118: load from the path or the inline material, or generate an
\* ephemeral key; cache.set(cache_key, private_key, CACHE_TTL); return it
KeyLoad(w) ==
    /\ key_loading[w] # ""
    /\ LET key_type == key_loading[w]
           ephemeral == key_material[key_type] = None
           private_key == IF ephemeral
                          THEN generate_private_key(key_type, key_generated + 1)
                          ELSE load_pem_private_key(key_type)
       IN /\ ephemeral => key_generated < MaxKeys
          /\ key_generated' = IF ephemeral THEN key_generated + 1 ELSE key_generated
          /\ key_cache' = [key_cache EXCEPT ![cache_key(key_type)] = private_key]
          /\ key_returned' = [key_returned EXCEPT ![key_type] = @ \cup {private_key}]
    /\ key_loading' = [key_loading EXCEPT ![w] = ""]
    /\ UNCHANGED <<key_material, keyFrame>>

\* lines 120-121: reading the key file raises; the call raises SignatureError
KeyLoadFails(w) ==
    /\ key_loading[w] # ""
    /\ key_material[key_loading[w]] = "PATH"
    /\ key_loading' = [key_loading EXCEPT ![w] = ""]
    /\ UNCHANGED <<key_material, key_cache, key_returned, key_generated, keyFrame>>

\* CACHE_TTL seconds after cache.set the entry is gone
CacheExpire(key_type) ==
    /\ key_cache[cache_key(key_type)] # None
    /\ key_cache' = [key_cache EXCEPT ![cache_key(key_type)] = None]
    /\ UNCHANGED <<key_material, key_loading, key_returned, key_generated, keyFrame>>

InitKeys ==
    /\ key_cache = [k \in {cache_key(t) : t \in KeyTypes} |-> None]
    /\ key_loading = [w \in WorkerIds |-> ""]
    /\ key_returned = [t \in KeyTypes |-> {}]
    /\ key_generated = 0


\* ---------------------------------------------------------------- court bundle generation
NoArchive == [stored |-> FALSE, evidence |-> {}, sign_bundle |-> FALSE]
NoGenCall == [op |-> "", entry_status |-> "", started |-> FALSE, raised |-> None]

Range(s) == {s[i] : i \in 1..Len(s)}

genFrame == <<clock, auditVars, signVars, custodyVars, bundle_signings, bundle_result,
              vaultVars, serviceVars, accountVars, raceVars, keyVars, lersVars>>

\* CourtBundleService.generate_bundle_file, lines 150-254, as it leaves the row
\* in memory.  unfetched: the evidence whose download_evidence(decrypt=True)
\* raises (logged, "Continue with other files"); zip_stored: whether the vault
\* stores the ZIP; key_loads: whether bundle.sign_bundle finds its key.
generate_bundle_file(status, files, manifest, sign_bundle_arg, unfetched, zip_stored, key_loads, now) ==
    IF status \notin {"PENDING", "FAILED"}
    THEN [raised |-> "ValidationError", started |-> FALSE, status |-> status,
          archive |-> NoArchive, manifest_signature |-> NoBundlePackage]
    ELSE IF ~zip_stored
    THEN [raised |-> "S3Error", started |-> TRUE, status |-> "FAILED",
          archive |-> NoArchive, manifest_signature |-> NoBundlePackage]
    ELSE [raised |-> None, started |-> TRUE, status |-> "READY",
          archive |-> [stored |-> TRUE, evidence |-> Range(files) \ unfetched,
                       sign_bundle |-> sign_bundle_arg],
          manifest_signature |->
              IF sign_bundle_arg /\ key_loads
              THEN sign_bundle(BundleId, 7, [i \in 1..Len(files) |-> Sha256(files[i])],
                               manifest, CreatedBy, now)
              ELSE NoBundlePackage]

\* @transaction.atomic around a call: what the call wrote stays only if the call
\* returns; an exception that leaves the block rolls the writes back.
atomic(before, after, raised) == IF raised = None THEN after ELSE before

\* generate_bundle_file called on its own: its atomic block is the outermost one
GenerateBundleFile(sign_bundle_arg, unfetched, zip_stored, key_loads) ==
    /\ bundle.exists
    /\ LET r == generate_bundle_file(bundle_status, bundle.evidence_files, bundle.manifest,
                                     sign_bundle_arg, unfetched, zip_stored, key_loads, clock)
       IN /\ bundle_status' = atomic(bundle_status, r.status, r.raised)
          /\ bundle_archive' = atomic(bundle_archive, r.archive, r.raised)
          /\ manifest_signature' = atomic(manifest_signature, r.manifest_signature, r.raised)
          /\ gen_call' = [op |-> "generate_bundle_file", entry_status |-> bundle_status,
                          started |-> r.started, raised |-> r.raised]
    /\ UNCHANGED <<bundle, genFrame>>

\* CourtBundleService.create_bundle lines 78-125: the row with status PENDING,
\* its evidence and manifest; with auto_generate, generate_bundle_file(sign_bundle=True)
\* inside a savepoint, and on any exception status = 'FAILED' is saved.
ServiceCreateBundle(files, auto_generate, unfetched, zip_stored, key_loads) ==
    /\ ~bundle.exists
    /\ LET manifest == generate_manifest(BundleId, files)
           r == generate_bundle_file("PENDING", files, manifest, TRUE, unfetched, zip_stored,
                                     key_loads, clock)
       IN /\ bundle' = [exists |-> TRUE, evidence_files |-> files, manifest |-> manifest]
          /\ bundle_status' =
                IF ~auto_generate THEN "PENDING"
                ELSE IF r.raised # None THEN "FAILED"
                ELSE atomic("PENDING", r.status, r.raised)
          /\ bundle_archive' =
                IF auto_generate THEN atomic(NoArchive, r.archive, r.raised) ELSE NoArchive
          /\ manifest_signature' =
                IF auto_generate
                THEN atomic(NoBundlePackage, r.manifest_signature, r.raised)
                ELSE NoBundlePackage
          /\ gen_call' = [op |-> "create_bundle", entry_status |-> "PENDING",
                          started |-> auto_generate /\ r.started,
                          raised |-> IF auto_generate THEN r.raised ELSE None]
    /\ UNCHANGED genFrame

InitGenerate ==
    /\ bundle_status = ""
    /\ bundle_archive = NoArchive
    /\ gen_call = NoGenCall


\* ---------------------------------------------------------------- LERS request workflow
\* LERSRequestService.VALID_TRANSITIONS
VALID_TRANSITIONS ==
    [s \in {"DRAFT", "PENDING_APPROVAL", "APPROVED", "SUBMITTED", "ACKNOWLEDGED",
            "IN_PROGRESS", "RESPONSE_UPLOADED", "COMPLETED", "REJECTED", "CANCELLED"} |->
        CASE s = "DRAFT" -> {"PENDING_APPROVAL", "CANCELLED"}
          [] s = "PENDING_APPROVAL" -> {"APPROVED", "REJECTED", "DRAFT"}
          [] s = "APPROVED" -> {"SUBMITTED", "CANCELLED"}
          [] s = "SUBMITTED" -> {"ACKNOWLEDGED", "CANCELLED"}
          [] s = "ACKNOWLEDGED" -> {"IN_PROGRESS", "CANCELLED"}
          [] s = "IN_PROGRESS" -> {"RESPONSE_UPLOADED", "CANCELLED"}
          [] s = "RESPONSE_UPLOADED" -> {"COMPLETED", "IN_PROGRESS"}
          [] OTHER -> {}]

NoLersRequest == [status |-> "", provider_tenant |-> FALSE, responses |-> FALSE]
NoLersCall == [op |-> "", changes |-> <<>>, raised |-> None]

lersFrame == <<clock, auditVars, signVars, custodyVars, bundleVars, vaultVars, serviceVars,
               accountVars, raceVars, keyVars, genVars>>

\* LERSRequestService._validate_state_transition: None, or the ValidationError
_validate_state_transition(status, new_status) ==
    IF new_status \notin VALID_TRANSITIONS[status] THEN "ValidationError" ELSE None

\* LERSRequestService.create_request: status='DRAFT'
CreateRequest(provider_tenant) ==
    /\ lers_request = NoLersRequest
    /\ lers_request' = [status |-> "DRAFT", provider_tenant |-> provider_tenant,
                        responses |-> FALSE]
    /\ lers_call' = [op |-> "create_request", changes |-> <<>>, raised |-> None]
    /\ UNCHANGED lersFrame

\* The shape the service's status operations share: validate the transition,
\* check the operation's own inputs, set the status and save it.
ServiceSetStatus(op, new_status, inputs_valid) ==
    /\ lers_request # NoLersRequest
    /\ LET raised == IF _validate_state_transition(lers_request.status, new_status) # None
                     THEN "ValidationError"
                     ELSE IF ~inputs_valid THEN "ValidationError" ELSE None
       IN /\ lers_request' = IF raised = None
                             THEN [lers_request EXCEPT !.status = new_status]
                             ELSE lers_request
          /\ lers_call' = [op |-> op, raised |-> raised,
                           changes |-> IF raised = None
                                       THEN <<<<lers_request.status, new_status>>>>
                                       ELSE <<>>]
    /\ UNCHANGED lersFrame

\* submit_for_approval: mandate file, description and identifiers are required
SubmitForApproval(inputs_valid) ==
    ServiceSetStatus("submit_for_approval", "PENDING_APPROVAL", inputs_valid)

\* approve_request; with auto_submit_to_provider and a provider tenant it goes on
\* to submit_to_provider, whose exception is logged and dropped
ApproveRequest(auto_submit_to_provider) ==
    /\ lers_request # NoLersRequest
    /\ LET raised == _validate_state_transition(lers_request.status, "APPROVED")
           submits == auto_submit_to_provider /\ lers_request.provider_tenant
                         /\ _validate_state_transition("APPROVED", "SUBMITTED") = None
       IN /\ lers_request' =
                IF raised # None THEN lers_request
                ELSE [lers_request EXCEPT !.status = IF submits THEN "SUBMITTED" ELSE "APPROVED"]
          /\ lers_call' = [op |-> "approve_request", raised |-> raised,
                           changes |->
                              IF raised # None THEN <<>>
                              ELSE IF submits
                              THEN <<<<lers_request.status, "APPROVED">>, <<"APPROVED", "SUBMITTED">>>>
                              ELSE <<<<lers_request.status, "APPROVED">>>>]
    /\ UNCHANGED lersFrame

\* reject_request: a reason is required
RejectRequest(inputs_valid) == ServiceSetStatus("reject_request", "REJECTED", inputs_valid)

\* request_changes: changes_needed is required
RequestChanges(inputs_valid) == ServiceSetStatus("request_changes", "DRAFT", inputs_valid)

SubmitToProvider == ServiceSetStatus("submit_to_provider", "SUBMITTED", TRUE)

AcknowledgeRequest == ServiceSetStatus("acknowledge_request", "ACKNOWLEDGED", TRUE)

StartProcessing == ServiceSetStatus("start_processing", "IN_PROGRESS", TRUE)

\* complete_request: lers_request.responses.exists() is required
CompleteRequest ==
    ServiceSetStatus("complete_request", "COMPLETED", lers_request.responses)

\* LERSResponseService.submit_response: the status is checked against its own
\* list, a response row is created, the status is set
SubmitResponse ==
    /\ lers_request # NoLersRequest
    /\ LET raised == IF lers_request.status \notin {"SUBMITTED", "ACKNOWLEDGED", "IN_PROGRESS"}
                     THEN "ValidationError" ELSE None
       IN /\ lers_request' =
                IF raised # None THEN lers_request
                ELSE [lers_request EXCEPT !.status = "RESPONSE_UPLOADED", !.responses = TRUE]
          /\ lers_call' = [op |-> "submit_response", raised |-> raised,
                           changes |-> IF raised # None THEN <<>>
                                       ELSE <<<<lers_request.status, "RESPONSE_UPLOADED">>>>]
    /\ UNCHANGED lersFrame

\* tasks.auto_submit_approved_requests: rows with status APPROVED and a provider
\* tenant get status SUBMITTED
AutoSubmitApprovedRequests ==
    /\ lers_request # NoLersRequest
    /\ LET selected == lers_request.status = "APPROVED" /\ lers_request.provider_tenant
       IN /\ lers_request' = IF selected THEN [lers_request EXCEPT !.status = "SUBMITTED"]
                             ELSE lers_request
          /\ lers_call' = [op |-> "auto_submit_approved_requests", raised |-> None,
                           changes |-> IF selected THEN <<<<lers_request.status, "SUBMITTED">>>>
                                       ELSE <<>>]
    /\ UNCHANGED lersFrame

InitLers ==
    /\ lers_request = NoLersRequest
    /\ lers_call = NoLersCall

InitLaterButMaterial == InitAccounts /\ InitRace /\ InitKeys /\ InitGenerate /\ InitLers

InitLater == InitLaterButMaterial /\ key_material = [t \in KeyTypes |-> "PEM"]

\* ---------------------------------------------------------------- specifications
InitAuditCommon ==
    /\ audit_logs = {}
    /\ clock = 1
    /\ pc = [w \in WorkerIds |-> "idle"]
    /\ req = [w \in WorkerIds |-> NoReq]
    /\ tampered = [idx |-> 0, n |-> 0]

\* Entries are appended one at a time; accounts are deleted, the admin re-saves
\* entries and the retention job runs as days go by.
nonLifeVars == <<signVars, custodyVars, bundleVars, vaultVars, serviceVars, raceVars, keyVars,
                 genVars, lersVars>>

InitAuditLife == InitAuditCommon /\ workers = {} /\ InitSign /\ InitCustody /\ InitBundle
    /\ InitService /\ InitVault /\ InitLater /\ encryption_key = b64encode("k1")

NextAuditLife ==
    \/ \E r \in {q \in AuditRequests : q.method = "GET"} :
          AuditLogCreate(r) /\ UNCHANGED nonLifeVars
    \/ \E e \in audit_logs : AdminChangeAuditLog(e) /\ UNCHANGED nonLifeVars
    \/ \E u \in Users : DeleteUser(u) /\ UNCHANGED nonLifeVars
    \/ \E t \in Tenants : DeleteTenant(t) /\ UNCHANGED nonLifeVars
    \/ CleanupOldLogs /\ UNCHANGED nonLifeVars
    \/ \E days \in {retention_days - 1, retention_days} : PassDays(days) /\ UNCHANGED nonLifeVars

SpecAuditLife == InitAuditLife /\ [][NextAuditLife]_vars

\* Two handlers have each built an instance and run AuditLog.save.
InitAuditHash ==
    /\ audit_logs = {}
    /\ clock = 3
    /\ workers = {1, 2}
    /\ pc = [w \in WorkerIds |-> IF w \in {1, 2} THEN "created" ELSE "idle"]
    /\ \E a, b \in NewInstances :
          req = [w \in WorkerIds |-> IF w = 1 THEN a ELSE IF w = 2 THEN b ELSE NoReq]
    /\ tampered = [idx |-> 0, n |-> 0]
    /\ InitSign /\ InitCustody /\ InitBundle
    /\ InitService /\ InitVault /\ InitLater /\ encryption_key = b64encode("k1")

NextAuditHash ==
    \/ \E w \in workers : SaveRead(w)
    \/ \E w \in workers : SaveInsert(w)

SpecAuditHash == InitAuditHash /\ [][NextAuditHash]_vars

\* One evidence item has been uploaded; handlers append custody events to it
\* concurrently.
UploadedEvidence ==
    [exists |-> TRUE, sha256_hash |-> Sha256("c1"), digital_signature |-> NoPackage,
     legal_hold |-> FALSE]

InitCustodyRace ==
    /\ InitAuditCommon /\ workers = WorkerIds /\ InitSign /\ InitBundle
    /\ InitService /\ InitVault /\ InitLater /\ encryption_key = b64encode("k1")
    /\ evidence_files = [c \in Contents |-> IF c = "c1" THEN UploadedEvidence ELSE NoEvidence]
    /\ custody = {}
    /\ uploading = {}

NextCustodyRace ==
    \/ \E w \in workers, action \in {"VIEWED", "DOWNLOADED"} : CustodyReadNow(w, "c1", action)
    \/ \E w \in workers : CustodyInsert(w)
    \/ ClockAdvance

SpecCustodyRace == InitCustodyRace /\ [][NextCustodyRace]_vars

\* Handlers ask the key manager for signing keys, under each configuration the
\* settings can hold; cache entries expire.
InitKeySpec == InitAuditCommon /\ workers = WorkerIds /\ InitSign /\ InitCustody /\ InitBundle
    /\ InitService /\ InitVault /\ encryption_key = b64encode("k1")
    /\ InitLaterButMaterial /\ key_material \in [KeyTypes -> Materials]

NextKeys ==
    \/ \E w \in workers, key_type \in KeyTypes : KeyCacheHit(w, key_type)
    \/ \E w \in workers, key_type \in KeyTypes : KeyCacheMiss(w, key_type)
    \/ \E w \in workers : KeyLoad(w)
    \/ \E w \in workers : KeyLoadFails(w)
    \/ \E key_type \in KeyTypes : CacheExpire(key_type)

SpecKeys == InitKeySpec /\ [][NextKeys]_vars

\* A bundle of two evidence items is created, with or without generation, and
\* generated (again); downloads, the upload of the ZIP and signing may fail.
InitGenerateSpec == InitAuditCommon /\ workers = {} /\ InitSign /\ InitCustody /\ InitBundle
    /\ InitService /\ InitVault /\ InitLater /\ encryption_key = b64encode("k1")

GenerateFiles ==
    UNION {Orderings(S) : S \in {T \in SUBSET BundleContents : Cardinality(T) = 2}}

NextGenerate ==
    \/ \E files \in GenerateFiles, auto_generate \in BOOLEAN, zip_stored \in BOOLEAN,
          key_loads \in BOOLEAN :
          \E unfetched \in SUBSET Range(files) :
             ServiceCreateBundle(files, auto_generate, unfetched, zip_stored, key_loads)
    \/ \E sign_bundle_arg \in BOOLEAN, unfetched \in SUBSET Range(bundle.evidence_files),
          zip_stored \in BOOLEAN, key_loads \in BOOLEAN :
          GenerateBundleFile(sign_bundle_arg, unfetched, zip_stored, key_loads)

SpecGenerate == InitGenerateSpec /\ [][NextGenerate]_vars

\* One LERS request goes through its workflow; every operation may be called
\* in every status.
InitLersSpec == InitAuditCommon /\ workers = {} /\ InitSign /\ InitCustody /\ InitBundle
    /\ InitService /\ InitVault /\ InitLater /\ encryption_key = b64encode("k1")

NextLers ==
    \/ \E provider_tenant \in BOOLEAN : CreateRequest(provider_tenant)
    \/ \E inputs_valid \in BOOLEAN : SubmitForApproval(inputs_valid)
    \/ \E auto_submit_to_provider \in BOOLEAN : ApproveRequest(auto_submit_to_provider)
    \/ \E inputs_valid \in BOOLEAN : RejectRequest(inputs_valid)
    \/ \E inputs_valid \in BOOLEAN : RequestChanges(inputs_valid)
    \/ SubmitToProvider
    \/ AcknowledgeRequest
    \/ StartProcessing
    \/ CompleteRequest
    \/ SubmitResponse
    \/ AutoSubmitApprovedRequests

SpecLers == InitLersSpec /\ [][NextLers]_vars

\* Concurrent request handlers appending to the ledger.
InitAudit == InitAuditCommon /\ workers = WorkerIds /\ InitSign /\ InitCustody /\ InitBundle
    /\ InitService /\ InitVault /\ InitLater /\ encryption_key = b64encode("k1")

NextAudit ==
    \/ \E w \in workers, r \in AuditRequests : AuditCreate(w, r)
    \/ \E w \in workers : SaveRead(w)
    \/ \E w \in workers : SaveInsert(w)

SpecAudit == InitAudit /\ [][NextAudit]_vars

\* One handler at a time (sequential appends), then at most one corruption.
InitAuditSeq == InitAuditCommon /\ workers = {1} /\ InitSign /\ InitCustody /\ InitBundle
    /\ InitService /\ InitVault /\ InitLater /\ encryption_key = b64encode("k1")

NextAuditSeq ==
    \/ \E r \in AuditRequests : AuditCreate(1, r)
    \/ SaveRead(1)
    \/ SaveInsert(1)
    \/ \E i \in 1..MaxLogs, v \in TamperValues : Tamper(i, v)

SpecAuditSeq == InitAuditSeq /\ [][NextAuditSeq]_vars

\* sign_evidence, one change to the package, verify_evidence.
InitSignSpec == InitAuditCommon /\ workers = {} /\ InitSign /\ InitCustody /\ InitBundle
    /\ InitService /\ InitVault /\ InitLater /\ encryption_key = b64encode("k1")

NextSign ==
    \/ \E c \in Contents, n \in FileNames, z \in FileSizes, u \in Users,
          k \in CaseIds, salt \in Salts : SignEvidence(c, n, z, u, k, salt)
    \/ \E f \in PayloadFields : \E v \in PayloadValues(f) : ChangePayloadField(f, v)
    \/ \E f \in PackageFields : \E v \in PackageValues(f) : ChangePackageField(f, v)
    \/ VerifyEvidence

SpecSign == InitSignSpec /\ [][NextSign]_vars

\* Uploads, accesses, verifications and admin edits of the custody ledger.
InitCustodySpec == InitAuditCommon /\ workers = {} /\ InitSign /\ InitCustody /\ InitBundle
    /\ InitService /\ InitVault /\ InitLater /\ encryption_key = b64encode("k1")

OtherHashes == {None, Sha256("c2")}

\* get_evidence_vault().verify_integrity(...) on a blob nobody modified
VaultAnswers == {TRUE}

NextCustody ==
    \/ \E c \in Contents, auto_sign \in BOOLEAN, salt \in {"s1"} :
          ServiceUpload(c, auto_sign, salt)
    \/ \E c \in Contents : ViewUploadCreate(c)
    \/ \E c \in Contents : ViewUploadCustody(c)
    \/ \E e \in Contents : ViewDownload(e)
    \/ \E e \in Contents, is_valid \in VaultAnswers : ViewVerifyIntegrity(e, is_valid)
    \/ \E e \in Contents, is_valid \in VaultAnswers : ServiceVerifyIntegrity(e, is_valid)
    \/ \E e \in Contents, h \in OtherHashes : ServiceVerifySignature(e, h)
    \/ \E e \in Contents, a \in {"VERIFIED"} : ServiceCreateWithVerification(e, a)
    \/ \E e \in Contents, a \in {"VIEWED", "REVIEWED"}, h \in {Sha256("c2")} :
          CreateCustodyRecord(e, a, h)
    \/ \E r \in custody, a \in AdminActions : AdminChangeCustody(r, a)
    \/ \E r \in custody : AdminDeleteCustody(r)

SpecCustody == InitCustodySpec /\ [][NextCustody]_vars

\* A bundle is created, signed (possibly twice, from two orderings of its
\* evidence hashes), modified and verified.
InitBundleSpec == InitAuditCommon /\ workers = {} /\ InitSign /\ InitCustody /\ InitBundle
    /\ InitService /\ InitVault /\ InitLater /\ encryption_key = b64encode("k1")

NextBundle ==
    \/ \E S \in {T \in SUBSET BundleContents : Cardinality(T) >= 2} :
          \E files \in Orderings(S) : CreateBundle(files)
    \/ \E order \in Orderings({bundle.evidence_files[i] : i \in 1..Len(bundle.evidence_files)}) :
          SignBundle(order)
    \/ Tick
    \/ \E i \in 1..Cardinality(BundleContents) : RemoveManifestReference(i)
    \/ VerifyBundleSignature

SpecBundle == InitBundleSpec /\ [][NextBundle]_vars

\* encrypt_file, one inverted bit, decrypt_file, under each configured key.
InitEnvelopeSpec == InitAuditCommon /\ workers = {} /\ InitSign /\ InitCustody /\ InitBundle
    /\ InitService /\ InitVault /\ InitLater /\ encryption_key \in EncryptionKeys

NextEnvelope ==
    \/ \E file_content \in Plaintexts, iv \in Ivs : EncryptFile(file_content, iv)
    \/ \E part \in EnvelopeParts, bit \in 1..MaxBit : FlipEnvelopeBit(part, bit)
    \/ DecryptFile

SpecEnvelope == InitEnvelopeSpec /\ [][NextEnvelope]_vars

\* Uploads into the bucket, one inverted bit, and the vault's read operations.
InitStoreSpec == InitAuditCommon /\ workers = {} /\ InitSign /\ InitCustody /\ InitBundle
    /\ InitService /\ InitVault /\ InitLater /\ encryption_key = b64encode("k1")

StoragePaths == DOMAIN objects \cup {MissingPath}
ExpectedHashes == {Sha256("c1")}

NextStore ==
    \/ \E file_content \in VaultContents, file_name \in VaultFileNames,
          case_id \in VaultCaseIds, encrypt \in BOOLEAN, iv \in {"iv1"} :
          UploadEvidence(file_content, file_name, case_id, encrypt, iv)
    \/ \E storage_path \in DOMAIN objects, i \in 1..3, bit \in {1} :
          FlipStoredBit(storage_path, i, bit)
    \/ \E storage_path \in StoragePaths, decrypt \in BOOLEAN :
          DownloadEvidence(storage_path, decrypt)
    \/ \E storage_path \in StoragePaths, expected_hash \in ExpectedHashes :
          VerifyIntegrity(storage_path, expected_hash)
    \/ \E storage_path \in StoragePaths : GeneratePresignedDownloadUrl(storage_path)

SpecStore == InitStoreSpec /\ [][NextStore]_vars

\* One evidence item is uploaded through the service, put under legal hold,
\* damaged or removed in the bucket, verified and deleted.
InitServiceSpec == InitAuditCommon /\ workers = {} /\ InitSign /\ InitCustody /\ InitBundle
    /\ InitService /\ InitVault /\ InitLater /\ encryption_key = b64encode("k1")

ServiceContents == {"c1"}

NextService ==
    \/ \E c \in ServiceContents, encrypt \in BOOLEAN, auto_sign \in BOOLEAN, key_loads \in BOOLEAN :
          ServiceUploadToVault(c, encrypt, auto_sign, key_loads, "iv1", "s1")
    \/ \E storage_path \in DOMAIN objects, i \in 1..3, bit \in {1} :
          FlipStoredBit(storage_path, i, bit)
    \/ \E e \in ServiceContents : ServiceVerifyEvidenceIntegrity(e)
    \/ \E e \in ServiceContents : ViewSetVerifyIntegrity(e)
    \/ \E e \in ServiceContents : SetLegalHold(e)
    \/ \E e \in ServiceContents : ReleaseLegalHold(e)
    \/ \E e \in ServiceContents : ViewSetDestroy(e)
    \/ \E e \in ServiceContents : DeleteEvidence(e)

SpecService == InitServiceSpec /\ [][NextService]_vars

\* Packages arrive and are verified.
InitVerifySpec == InitAuditCommon /\ workers = {} /\ InitSign /\ InitCustody /\ InitBundle
    /\ InitService /\ InitVault /\ InitLater /\ encryption_key = b64encode("k1")

NextVerify ==
    \/ \E package \in EvidencePackages : ReceiveEvidencePackage(package)
    \/ VerifyEvidencePackage
    \/ \E package \in BundlePackages : ReceiveBundlePackage(package)
    \/ VerifyBundlePackage

SpecVerify == InitVerifySpec /\ [][NextVerify]_vars

\* ---------------------------------------------------------------- claims: audit ledger
AllIdle == \A w \in workers : pc[w] = "idle"

Chain == OrderByTimestamp(audit_logs)

\* C1: once N concurrent appends have all returned, the ledger read back in
\* order passes verify_chain and no two stored entries record the same
\* previous integrity value (no fork).
C1_ConcurrentAppendsNoFork ==
    AllIdle =>
        /\ VerifyChain(Chain).ok
        /\ \A e, f \in audit_logs :
              e # f => e.previous_log_hash # f.previous_log_hash

\* C2: after any number of sequential appends to an initially empty ledger
\* (nothing corrupted), verify_chain over the whole ledger returns ok: the first
\* previous value is empty, each later one is the stored value before it, and
\* replaying the hash reproduces every stored value.
C2_SequentialChainValid ==
    tampered.idx = 0 =>
        /\ VerifyChain(Chain).ok
        /\ \A j \in 1..Len(Chain) :
              /\ Chain[j].previous_log_hash = (IF j = 1 THEN "" ELSE Chain[j - 1].log_hash)
              /\ ReplayHash(Chain[j]) = Chain[j].log_hash

C2_Witness ==
    /\ tampered.idx = 0
    /\ Cardinality(audit_logs) >= 3
    /\ AllIdle

\* The ledger is the N sequentially appended entries with exactly one stored
\* integrity value overwritten afterwards.
OneValueCorrupted ==
    /\ tampered.idx # 0
    /\ Cardinality(audit_logs) = tampered.n

\* C3 (as stated): with one stored value corrupted at index i, verify_chain is
\* not ok, first_break = i, and the replay disagrees at every index after i.
C3_BreakAtEveryLaterIndex ==
    OneValueCorrupted =>
        /\ ~VerifyChain(Chain).ok
        /\ VerifyChain(Chain).first_break = tampered.idx
        /\ \A j \in 1..Len(Chain) : j > tampered.idx => Disagrees(Chain, j)

\* C3 (amended): with one stored value corrupted at index i, verify_chain is
\* not ok with first_break = i; the replay also disagrees at index i+1 (its
\* stored previous value no longer matches) and agrees at every index after i+1.
C3_FirstBreakAtCorruptedIndex ==
    OneValueCorrupted =>
        /\ ~VerifyChain(Chain).ok
        /\ VerifyChain(Chain).first_break = tampered.idx
        /\ \A j \in 1..Len(Chain) :
              /\ j = tampered.idx + 1 => Disagrees(Chain, j)
              /\ j > tampered.idx + 1 => ~Disagrees(Chain, j)

C3_Witness ==
    /\ OneValueCorrupted
    /\ tampered.idx = 1
    /\ Cardinality(audit_logs) >= 3
    /\ ~VerifyChain(Chain).ok

\* C21: a persisted audit entry never changes (actor, action, resource type,
\* resource id, timestamp, integrity value, previous value), whatever operation
\* runs, and it leaves the ledger only when the retention job removes it, which
\* happens only to entries older than the retention cutoff.
C21_EntriesImmutableUntilRetention ==
    [][\A e \in audit_logs :
          \/ e \in audit_logs'
          \/ /\ audit_op'.op = "cleanup_old_logs"
             /\ e.timestamp < cutoff_date(clock)]_vars

\* The entries that have received an integrity value: stored, or hashed and
\* about to be inserted.
Hashed == audit_logs \cup {req[w] : w \in {v \in workers : pc[v] = "hashed"}}

HashedTuple(e) ==
    <<e.user_id, e.action, e.resource_type, e.resource_id, e.timestamp, e.previous_log_hash>>

\* C22: the integrity value an entry receives is the hash of exactly (actor,
\* action, resource type, resource id, timestamp, previous value), the previous
\* value being the integrity value of the latest stored entry when save() runs
\* (empty when there is none); entries whose tuples differ in any component
\* never receive the same integrity value.
C22_IntegrityValueIsHashOfTuple ==
    [][/\ \A w \in workers :
             (pc[w] = "created" /\ pc'[w] = "hashed") =>
                /\ req'[w].log_hash = ReplayHash(req'[w])
                /\ HashedTuple(req'[w]) =
                      <<req[w].user_id, req[w].action, req[w].resource_type,
                        req[w].resource_id, req[w].timestamp, req'[w].previous_log_hash>>
                /\ IF audit_logs = {}
                   THEN req'[w].previous_log_hash = ""
                   ELSE \E f \in audit_logs :
                           /\ \A g \in audit_logs : g.timestamp <= f.timestamp
                           /\ req'[w].previous_log_hash = f.log_hash
       /\ \A e, f \in Hashed' :
             HashedTuple(e) # HashedTuple(f) => e.log_hash # f.log_hash]_vars

\* Two stored entries that differ only in the resource id, one id holding ':'.
C22_Witness ==
    \E e, f \in audit_logs :
        /\ e.resource_id = "7" /\ f.resource_id = "7:T1"
        /\ e.log_hash # "" /\ f.log_hash # ""
        /\ [e EXCEPT !.resource_id = "", !.log_hash = ""]
              = [f EXCEPT !.resource_id = "", !.log_hash = ""]

\* C30: every processed request of an authenticated user to an audited path
\* yields exactly one audit entry of its own, recording that user, the action
\* mapped from the method and the resource: when the middleware returns the
\* response, the entry built for the request has been added to audit_logs.
C30_ResponseReturnedOnlyWithEntryPersisted ==
    [][\A w \in workers :
          (pc[w] = "hashed" /\ pc'[w] = "idle") =>
             /\ req[w] \notin audit_logs
             /\ audit_logs' = audit_logs \cup {req[w]}
             /\ \E r \in AuditRequests, rt \in ResourceTypes, rid \in ResourceIds :
                   /\ req[w].user_id = r.user
                   /\ req[w].action = action_map(r.method)
                   /\ req[w].resource_type = rt
                   /\ req[w].resource_id = rid]_vars

\* ---------------------------------------------------------------- claims: custody ledger
EarliestRecord(e) == OrderByActionTimestamp(custody_records(e))[1]

\* C4: for every evidence item that has at least one custody event, the
\* earliest event by timestamp has action UPLOADED.
C4_EarliestEventIsUploaded ==
    \A e \in Contents :
        custody_records(e) # {} => EarliestRecord(e).action = "UPLOADED"

\* C5: the custody ledger is append-only: every step keeps every stored event
\* unchanged, so each item's event sequence only ever grows.
C5_CustodyAppendOnly == [][custody \subseteq custody']_vars

\* The item's earliest event is not UPLOADED.
FirstNotUploaded(e) ==
    /\ custody_records(e) # {}
    /\ EarliestRecord(e).action # "UPLOADED"

\* Some event of the item asserts a digest other than the evidence's current one.
\* Every write path asserts a digest (create_custody_record falls back to the
\* evidence's own).
DigestMismatch(e) ==
    \E r \in custody_records(e) :
        r.file_hash_at_action # evidence_files[e].sha256_hash

\* C6: validate_chain returns not-ok with at least one problem listed whenever
\* the item's earliest event is not UPLOADED and whenever some event's asserted
\* digest differs from the evidence's current digest.
C6_ValidateFlagsOrderAndDigest ==
    \A e \in Contents :
        (evidence_files[e].exists /\ (FirstNotUploaded(e) \/ DigestMismatch(e))) =>
            LET result == validate_custody_chain(e) IN
              /\ ~result.is_valid
              /\ Len(result.issues) >= 1
              /\ FirstNotUploaded(e) =>
                   \E i \in 1..Len(result.issues) :
                      result.issues[i] = "First action should be UPLOADED, found "
                                            \o EarliestRecord(e).action
              /\ DigestMismatch(e) =>
                   \E i \in 1..Len(result.issues) :
                      SubSeq(result.issues[i], 1, 13) = "Hash mismatch"

C6_Witness ==
    \E e \in Contents :
        /\ FirstNotUploaded(e)
        /\ DigestMismatch(e)
        /\ \E r \in custody_records(e) : r.action = "UPLOADED"
        /\ ~validate_custody_chain(e).is_valid
        /\ Len(validate_custody_chain(e).issues) >= 2

\* The item carries a signature package and its chain is otherwise consistent:
\* the earliest event is UPLOADED and every asserted digest is the current one.
SignedAndOtherwiseConsistent(e) ==
    /\ evidence_files[e].exists
    /\ evidence_files[e].digital_signature # NoPackage
    /\ custody_records(e) # {}
    /\ ~FirstNotUploaded(e)
    /\ ~DigestMismatch(e)

\* A VERIFIED event that records a successful check: the signature check stored
\* in its metadata, or the event verify_evidence_signature appends for a valid
\* signature.
RecordsSuccessfulCheck(r) ==
    /\ r.action = "VERIFIED"
    /\ \/ r.metadata = SignatureVerificationMetadata(TRUE)
       \/ /\ r.integrity_verified
          /\ r.description = "Digital signature verified: Valid"

\* C7: for a signed item whose chain is otherwise consistent, validate_chain
\* returns ok if and only if the ledger holds at least one VERIFIED event
\* recording a successful check, the event appended by the service's signature
\* verification included.
C7_SignedChainOkIffVerified ==
    \A e \in Contents :
        SignedAndOtherwiseConsistent(e) =>
            (validate_custody_chain(e).is_valid
                <=> \E r \in custody_records(e) : RecordsSuccessfulCheck(r))

\* C24: the appends of custody events to one evidence item are serialized: no
\* two events of the item carry the same timestamp, and the events' timestamp
\* order is the order in which their appends took effect.
C24_AppendsSerializedPerItem ==
    \A i, j \in 1..Len(custody_order) :
        (i < j /\ custody_order[i].evidence = custody_order[j].evidence) =>
            custody_order[i].action_timestamp < custody_order[j].action_timestamp

\* ---------------------------------------------------------------- claims: signatures
\* C8: verify_evidence of the package sign_evidence returned is (True, None),
\* and after any one field of the package was changed (a payload field, the
\* signature, the algorithm id, the key id or the signed-at timestamp)
\* verify_evidence returns invalid.
C8_RoundTripAndAnyChangeInvalid ==
    sig_result # NoResult =>
        /\ sig_changed = "" => sig_result = [is_valid |-> TRUE, error |-> None]
        /\ sig_changed # "" => ~sig_result.is_valid

\* C25: for each key type, every call to the key manager returns the same
\* signing key while the configured material is unchanged, whether callers
\* arrive together at an empty cache or a cache entry has expired in between;
\* what one call's key signed verifies under the public key of any other call.
C25_EveryCallReturnsSameKey ==
    \A key_type \in KeyTypes :
        \A k1, k2 \in key_returned[key_type] : public_key(k1) = public_key(k2)

\* ---------------------------------------------------------------- claims: court bundle
SignedManifest == manifest_signature.payload.manifest

\* C9: once a manifest has been signed, bundle signature verification never
\* reports valid while the bundle's current manifest differs from the manifest
\* that was signed; in particular not after an evidence reference was removed.
C9_ModifiedManifestFailsVerification ==
    (manifest_signature # NoBundlePackage /\ bundle.manifest # SignedManifest) =>
        /\ ~bundle_verify_bundle_signature.is_valid
        /\ bundle_verify_bundle_signature.error = "Bundle signature is invalid"

C9_Witness ==
    /\ manifest_signature # NoBundlePackage
    /\ Len(SignedManifest.evidence_files) = 3
    /\ Len(bundle.manifest.evidence_files) = 2
    /\ bundle_result = bundle_verify_bundle_signature
    /\ ~bundle_result.is_valid
    /\ verify_bundle(manifest_signature).is_valid

\* sign_bundle was called twice for the same bundle with every input equal
\* except the order of the evidence hashes.
SignedTwice ==
    /\ Len(bundle_signings) = 2
    /\ bundle_signings[1].package.payload.manifest
          = bundle_signings[2].package.payload.manifest

Payload(k) == bundle_signings[k].package.payload

\* C10 (as stated): two sign_bundle calls that differ only in the order of the
\* evidence hashes give packages that both verify and whose canonical signed
\* payloads are byte-identical.
C10_TwoOrdersByteIdentical ==
    SignedTwice =>
        /\ verify_bundle(bundle_signings[1].package).is_valid
        /\ verify_bundle(bundle_signings[2].package).is_valid
        /\ json_dumps_bundle(Payload(1)) = json_dumps_bundle(Payload(2))

\* C10 (amended): both packages verify and their canonical signed payloads are
\* identical in every field other than the signing timestamp sign_bundle reads
\* from the clock; they are byte-identical when both calls read the same time.
C10_TwoOrdersIdenticalUpToTimestamp ==
    SignedTwice =>
        /\ verify_bundle(bundle_signings[1].package).is_valid
        /\ verify_bundle(bundle_signings[2].package).is_valid
        /\ json_dumps_bundle([Payload(1) EXCEPT !.timestamp = ""])
              = json_dumps_bundle([Payload(2) EXCEPT !.timestamp = ""])
        /\ Payload(1).evidence_hashes = Payload(2).evidence_hashes
        /\ Payload(1).timestamp = Payload(2).timestamp =>
              json_dumps_bundle(Payload(1)) = json_dumps_bundle(Payload(2))

C10_Witness ==
    /\ SignedTwice
    /\ Len(bundle_signings[1].evidence_hashes) = 3
    /\ bundle_signings[1].evidence_hashes # bundle_signings[2].evidence_hashes
    /\ bundle_signings[1].evidence_hashes # Payload(1).evidence_hashes
    /\ Payload(1).timestamp # Payload(2).timestamp
    /\ verify_bundle(bundle_signings[2].package).is_valid

\* C26: when generate_bundle_file fails after it has started (status PENDING or
\* FAILED on entry), the committed status afterwards is FAILED, both when it is
\* called on its own and when create_bundle calls it for auto_generate; the
\* status is neither left GENERATING nor back at PENDING.
C26_FailedGenerationLeavesFailed ==
    (gen_call.started /\ gen_call.raised # None) => bundle_status = "FAILED"

\* C27: a READY bundle has a stored archive that holds every evidence item the
\* bundle refers to and, when signing was asked for, a stored manifest
\* signature package; a download or signing failure never ends in READY.
C27_ReadyBundleIsComplete ==
    bundle_status = "READY" =>
        /\ bundle_archive.stored
        /\ bundle_archive.evidence = Range(bundle.evidence_files)
        /\ bundle_archive.sign_bundle => manifest_signature # NoBundlePackage

\* ---------------------------------------------------------------- claims: evidence vault
\* C11: decrypt_file returns the plaintext of an envelope encrypt_file built
\* under the same key, and for an envelope with one inverted bit in its
\* nonce, tag or body it raises the authentication failure and returns no
\* plaintext.
C11_RoundTripAndBitFlipRejected ==
    decrypt_result # NotCalled =>
        IF envelope.flipped = ""
        THEN decrypt_result = Returned(envelope.plain)
        ELSE decrypt_result = Raised("InvalidTag")

C11_Witness ==
    /\ envelope.flipped = "body"
    /\ envelope.plain = "c1"
    /\ decrypt_result = Raised("InvalidTag")

\* C12: two upload_evidence calls with the same content, name and case return
\* the same digest and the same location whatever their encrypt flags, and
\* two calls that differ in case, digest or name return different locations.
C12_LocationIsFunctionOfCaseDigestName ==
    \A u1 \in uploads, u2 \in uploads :
        LET same == /\ u1.case_id = u2.case_id
                    /\ u1.file_content = u2.file_content
                    /\ u1.file_name = u2.file_name
            differ == \/ u1.case_id # u2.case_id
                      \/ u1.sha256_hash # u2.sha256_hash
                      \/ u1.file_name # u2.file_name
        IN  /\ same => /\ u1.sha256_hash = u2.sha256_hash
                       /\ u1.storage_path = u2.storage_path
            /\ differ => u1.storage_path # u2.storage_path

\* C13: download_evidence fails with an integrity error whenever the decrypt
\* flag of the call and the '.enc' suffix of the location disagree.
C13_FlagSuffixMismatchFails ==
    (/\ vault_result.op = "download"
     /\ vault_result.storage_path \in DOMAIN objects
     /\ vault_result.flag # endswith(vault_result.storage_path, ".enc"))
        => vault_result.result.raised # None

\* C14: verify_integrity returns True exactly when the content that
\* download_evidence retrieves and decrypts from the location has the
\* expected digest, and the call leaves the bucket, the evidence records and
\* the custody ledger as they were.
VerifyReturned ==
    /\ vault_result'.op = "verify"
    /\ vault_result' # vault_result

C14_VerifyExactAndReadOnly ==
    [][VerifyReturned =>
         LET content == download_evidence(objects, vault_result'.storage_path, TRUE)
         IN  /\ vault_result'.result.raised = None
             /\ vault_result'.result.value =
                    (/\ content.raised = None
                     /\ Sha256(content.value) = vault_result'.expected_hash)
             /\ objects' = objects
             /\ evidence_files' = evidence_files
             /\ custody' = custody]_vars

C14_Witness ==
    /\ vault_result.op = "verify"
    /\ vault_result.storage_path = flipped_path
    /\ endswith(flipped_path, ".enc")
    /\ vault_result.result = Returned(FALSE)

\* C20: generate_presigned_download_url refuses a location that carries the
\* '.enc' suffix instead of returning a direct-access URL for it.
C20_NoUrlForEncryptedObject ==
    (/\ vault_result.op = "presign"
     /\ endswith(vault_result.storage_path, ".enc"))
        => vault_result.result.raised # None

\* ---------------------------------------------------------------- claims: evidence service
\* C15: every integrity verification made through the service or the API
\* appends exactly one custody event, a VERIFIED event for that evidence
\* whose integrity_verified flag equals the result returned; when one bit of
\* the stored object has been inverted the flag is False.
VerificationCalled ==
    /\ api_call' # api_call
    /\ api_call'.op \in {"verify_evidence_integrity", "verify_integrity"}

StoredObjectFlipped(e) ==
    /\ storage[e].storage_path \in DOMAIN objects
    /\ flipped_path = storage[e].storage_path

C16_HeldEvidenceNeverDeleted ==
    [][\A e \in Contents :
         (evidence_files[e].exists /\ evidence_files[e].legal_hold) =>
             /\ evidence_files'[e].exists
             /\ custody_records(e) \subseteq custody'
             /\ storage[e].storage_path \in DOMAIN objects
                    => storage[e].storage_path \in DOMAIN objects']_vars

\* C17: an upload made with signing enabled that completes leaves a record
\* that carries a signature package.
C17_SignedUploadNeverLeavesUnsignedRecord ==
    (/\ api_call.op = "upload_evidence"
     /\ api_call.auto_sign
     /\ api_call.raised = None
     /\ evidence_files[api_call.evidence].exists)
        => evidence_files[api_call.evidence].digital_signature # NoPackage

\* C23: a completed upload's steps take effect in the order vault, signature
\* service, custody ledger: whenever an UPLOADED event is on record, the
\* evidence carries a signature package and that package was signed no later
\* than the event was recorded.
C23_UploadedRecordedAfterSignature ==
    \A r \in custody :
        r.action = "UPLOADED" =>
            LET package == evidence_files[r.evidence].digital_signature IN
              /\ package # NoPackage
              /\ \E t \in 1..r.action_timestamp : package.signed_at = isoformat(t) \o "Z"

\* C23 restricted to evidence that did get signed: only the order is at stake.
C23_SignedNoLaterThanUploaded ==
    \A r \in custody :
        (r.action = "UPLOADED"
            /\ evidence_files[r.evidence].digital_signature # NoPackage) =>
            \E t \in 1..r.action_timestamp :
                evidence_files[r.evidence].digital_signature.signed_at = isoformat(t) \o "Z"

\* C19: verifying an object whose content no longer matches and verifying an
\* object that is not in the bucket report different outcomes and record
\* different custody events.
C19_MismatchAndNotFoundDistinguished ==
    (/\ outcome_of["mismatch"].via # ""
     /\ outcome_of["mismatch"].via = outcome_of["not_found"].via)
        => /\ <<outcome_of["mismatch"].is_valid, outcome_of["mismatch"].message>>
                # <<outcome_of["not_found"].is_valid, outcome_of["not_found"].message>>
           /\ <<outcome_of["mismatch"].action, outcome_of["mismatch"].integrity_verified,
                 outcome_of["mismatch"].description>>
                # <<outcome_of["not_found"].action, outcome_of["not_found"].integrity_verified,
                    outcome_of["not_found"].description>>

\* C28: a VERIFIED custody event with integrity_verified = False is appended
\* only by an operation that verified the stored content and found it not to
\* match; placing or releasing a legal hold, which verifies nothing, never
\* appends such an event.
C28_FailedVerifiedEventMeansFailedVerification ==
    [][\A r \in custody' \ custody :
          (r.action = "VERIFIED" /\ ~r.integrity_verified) =>
             /\ api_call'.op \in {"verify_evidence_integrity", "verify_integrity"}
             /\ api_call'.evidence = r.evidence
             /\ ~api_call'.is_valid]_vars

\* C29: every change of a LERS request's status made by a service operation or
\* by the periodic task is a transition listed in VALID_TRANSITIONS; in
\* particular COMPLETED, REJECTED and CANCELLED are never left.
C29_StatusChangesAreValidTransitions ==
    [][/\ \A i \in 1..Len(lers_call'.changes) :
             lers_call'.changes[i][2] \in VALID_TRANSITIONS[lers_call'.changes[i][1]]
       /\ (lers_request # NoLersRequest /\ lers_request'.status # lers_request.status) =>
             /\ Len(lers_call'.changes) >= 1
             /\ lers_call'.changes[1][1] = lers_request.status
             /\ lers_call'.changes[Len(lers_call'.changes)][2] = lers_request'.status]_vars

\* ---------------------------------------------------------------- claims: received packages
\* C18: verification looks at the algorithm before it decodes or checks the
\* signature, and a malformed package (signature, payload or algorithm
\* missing, or signature text that is not base64) is answered with an error
\* other than the 'signature invalid' error, and never with valid.
Malformed(package, no_payload) ==
    \/ package.signature = ""
    \/ package.payload = no_payload
    \/ package.algorithm = ""
    \/ ~IsCanonicalBase64(package.signature)

ComponentsPresent(package, no_payload) ==
    /\ package.signature # ""
    /\ package.payload # no_payload
    /\ package.algorithm # ""

AnsweredAsC18(package, no_payload, supported, result, invalid_error) ==
    /\ (ComponentsPresent(package, no_payload) /\ ~supported)
           => result = [is_valid |-> FALSE,
                        error |-> "Unsupported algorithm: " \o package.algorithm]
    /\ Malformed(package, no_payload)
           => /\ ~result.is_valid
              /\ result.error # invalid_error

C18_MalformedDistinctFromInvalid ==
    /\ sig_result # NoResult =>
          AnsweredAsC18(sig_pkg, NoPayload, StartsWithRSA(sig_pkg.algorithm), sig_result,
                        "Signature verification failed - signature is invalid")
    /\ bundle_result # NoResult =>
          AnsweredAsC18(manifest_signature, NoBundlePayload,
                        manifest_signature.algorithm = "Ed25519", bundle_result,
                        "Bundle signature is invalid")

====
